---- MODULE Spec2Model ----
(***************************************************************************)
(* Attempt/retry coordinator of DynamicWebScraper (scraper.py) together    *)
(* with the parts of ContentMonitor, DynamicContentHandler and             *)
(* ScrapingUtils it drives.  One DynamicWebScraper instance is used for    *)
(* successive comprehensive_scrape calls, as batch_analyze does.           *)
(*                                                                         *)
(* Every value captured from a page is tagged with its origin              *)
(* <<url, attempt number>>, so that the provenance of what a result        *)
(* contains can be stated.                                                 *)
(***************************************************************************)
EXTENDS Integers, Sequences, FiniteSets, TLC

(* ------------------------------ bounds -------------------------------- *)
\* largest max_retries argument explored
MaxRetries == 3
\* API-like requests the request handler records at most (log length cap)
MaxApiCalls == 1

(* ------------------------- program constants -------------------------- *)
\* wait_for_cloudflare(page, max_wait=30): seconds, one poll per second
CloudflareMaxWait == 30
\* _wait_for_content_stability: max_wait=10000 ms, in units of 100 ms
StabilityMaxWait == 100
\* _wait_for_content_stability: stability_duration=2000 ms, in units of 100 ms
StabilityDuration == 20
\* time.sleep(0.5) after a poll without new mutations, in units of 100 ms
StableSleep == 5
\* time.sleep(0.1) after a poll with new mutations, in units of 100 ms
ResetSleep == 1

(* ------------------------ the page, as observed ----------------------- *)
\* title phrases of protection_titles that the model's pages can show
\* (the title is represented by the set of phrases its lower-case form contains)
PageTitles == { {}, {"just a moment"}, {"just a moment", "cloudflare"} }
\* element ids produced by _generate_element_id on the model's pages
Elements == {"id_a"}
\* the URL lists handed to one instance: a single URL, or two in a row as
\* batch_analyze does
UrlLists == { <<"A">>, <<"A", "B">> }
\* the max_retries arguments explored with a list of URLs
RetryChoices(list) == IF Len(list) = 1 THEN 0..MaxRetries ELSE {1}

\* the selectors of protection_selectors that the model's pages can match
PageSelectorHits == { {} }
\* whether the body text of the model's pages can be shorter than 100 characters
PageMinimal == {FALSE}

\* Python's None for an exception, a dict and a structure
NoError == [kind |-> "None", attempt |-> 0]
None == [none |-> TRUE]
\* Python's {} (an empty dict)
EmptyDict == [k \in {} |-> {}]
\* Python's [] (an empty list)
EmptyList == << >>

VARIABLES
    pc,                    \* position of the caller / of comprehensive_scrape
    urls,                  \* the URLs the caller hands to the instance, in order
    urlIdx,                \* index in urls of the URL being (or last) processed, 0 before the first
    max_retries,           \* argument max_retries the caller passes with every URL
    monitor_content,       \* argument monitor_content the caller passes with every URL
    interact_with_elements,\* argument interact_with_elements the caller passes with every URL
    attempt,               \* loop variable of `for attempt in range(max_retries)`
    last_error,            \* local last_error
    exc,                   \* exception in flight inside the try block
    protection_detected,   \* local protection_detected (set of indicators, {} = None)
    wait_successful,       \* local wait_successful
    initial_structure,     \* local initial_structure (None until captured)
    monitoring_data,       \* local monitoring_data
    interaction_results,   \* local interaction_results
    playwright,            \* "running" inside `with sync_playwright()`, else "stopped"
    browser,               \* browser of the current attempt: "none", "open", "closed"
    openBrowsers,          \* browsers launched and not closed since the instance was made
    handlerRegistered,     \* page.on('request', handle_request) is in force on the live page
    cfElapsed,             \* seconds elapsed in wait_for_cloudflare (0 outside it)
    stableElapsed,         \* time.time() - stable_start in _wait_for_content_stability
    results,               \* self.results
    expanded_states,       \* self.dynamic_handler.expanded_states
    content_timeline,      \* self.content_monitor.content_timeline
    api_calls,             \* self.content_monitor.api_calls
    sessionsOpened,        \* history: browsers launched by the running call
    failedAttempts,        \* history: attempts of the running call that ended without completing
    navFailures,           \* history: attempts of the running call in which page.goto raised
    explorations,          \* history: how explore_expandable_content was called in the running attempt
    final_protection,      \* local final_protection
    ret,                   \* what the last call handed to its caller
    frame                  \* activation record of a component function run on its own

callArgs == <<urls, urlIdx, max_retries, monitor_content, interact_with_elements>>
locals == <<last_error, exc, protection_detected, final_protection, wait_successful,
            initial_structure, monitoring_data, interaction_results>>
session == <<playwright, browser, openBrowsers, handlerRegistered>>
timers == <<cfElapsed, stableElapsed>>
instance == <<results, expanded_states, content_timeline, api_calls>>
history == <<sessionsOpened, failedAttempts, navFailures, explorations>>
scraperVars == <<pc, attempt, callArgs, locals, session, timers, instance, history, ret>>
vars == <<scraperVars, frame>>

\* no component function is being run on its own
NoFrame == [fn |-> "none"]

Origin == <<urls[urlIdx], attempt + 1>>

(* DynamicWebScraper.__init__ and the component constructors *)
Init ==
    /\ pc = "idle"
    /\ urls \in UrlLists
    /\ urlIdx = 0
    /\ max_retries \in RetryChoices(urls)
    /\ monitor_content \in BOOLEAN
    /\ interact_with_elements \in BOOLEAN
    /\ attempt = 0
    /\ last_error = NoError
    /\ exc = NoError
    /\ protection_detected = {}
    /\ wait_successful = FALSE
    /\ final_protection = {}
    /\ initial_structure = None
    /\ monitoring_data = None
    /\ interaction_results = EmptyDict
    /\ playwright = "stopped"
    /\ browser = "none"
    /\ openBrowsers = 0
    /\ handlerRegistered = FALSE
    /\ cfElapsed = 0
    /\ stableElapsed = 0
    /\ results = EmptyDict
    /\ expanded_states = EmptyDict
    /\ content_timeline = EmptyList
    /\ api_calls = EmptyList
    /\ sessionsOpened = 0
    /\ failedAttempts = 0
    /\ navFailures = 0
    /\ explorations = << >>
    /\ ret = [kind |-> "none"]
    /\ frame = NoFrame

(* ------------------------- protection detector ------------------------ *)
\* _detect_bot_protection: one indicator per matched title phrase, per found
\* selector, and one for minimal content; the "; "-joined string is represented
\* by the set of its indicators, and None by the empty set.
DetectBotProtection(titlePhrases, selectorsFound, minimalContent) ==
    { "Title contains '" \o ph \o "'" : ph \in titlePhrases }
    \cup { "Found protection element: " \o sel : sel \in selectorsFound }
    \cup (IF minimalContent THEN {"Very minimal page content"} ELSE {})

\* a test that takes every indicator of a challenge page for Cloudflare's
MentionsChallenge(sig) ==
    sig \cap {"Title contains 'cloudflare'", "Title contains 'just a moment'",
              "Found protection element: .cf-browser-verification",
              "Found protection element: #challenge-form"} # {}

\* `"cloudflare" in protection_detected.lower()`: of all indicator strings only the
\* title indicator of the phrase 'cloudflare' contains that word
MentionsCloudflare(sig) == "Title contains 'cloudflare'" \in sig

\* a test that takes a title as blocked only if it shows every challenge phrase
TitleShowsAllPhrases(titlePhrases) ==
    {"just a moment", "checking your browser", "cloudflare"} \subseteq titlePhrases

\* wait_for_cloudflare's test of one title poll
TitleBlocked(titlePhrases) ==
    titlePhrases \cap {"just a moment", "checking your browser", "cloudflare"} # {}

(* ----------------------------- helpers -------------------------------- *)
\* an exception raised while the current attempt runs
Error(kind) == [kind |-> kind, attempt |-> attempt + 1]

\* leaving the `with sync_playwright()` block: Playwright is stopped and no page
\* event reaches the request handler any more
ExitWith ==
    /\ playwright' = "stopped"
    /\ handlerRegistered' = FALSE

\* an exception raised inside the try block travels to the except clause
Raise(kind) ==
    /\ exc' = Error(kind)
    /\ pc' = "handler"

\* an exception that leaves comprehensive_scrape (raised outside the try block)
Propagate(kind) ==
    /\ ret' = [kind |-> "raised", error |-> Error(kind)]
    /\ pc' = "idle"
    /\ ExitWith

\* browser.close(): it closes the browser and returns, or it raises and the browser
\* is as it was
CloseOutcomes == {"closed", "raised"}
CloseRaises(outcome) == outcome = "raised"
BrowserAfterClose(outcome) == IF CloseRaises(outcome) THEN browser ELSE "closed"
OpenAfterClose(outcome) ==
    IF CloseRaises(outcome) \/ browser # "open" THEN openBrowsers ELSE openBrowsers - 1

\* the locals an attempt assigns before it reads them
attemptLocals == <<exc, protection_detected, final_protection, wait_successful,
                   initial_structure, monitoring_data, interaction_results>>

\* `continue`: the with block is left and the loop takes the next attempt.  The
\* locals of the attempt that ended are dead (each is assigned again before it
\* is read), so they are shown as not yet assigned.
NextAttempt ==
    /\ attempt' = attempt + 1
    /\ failedAttempts' = failedAttempts + 1
    /\ explorations' = << >>
    /\ pc' = "open"
    /\ ExitWith
    /\ exc' = NoError
    /\ protection_detected' = {}
    /\ final_protection' = {}
    /\ wait_successful' = FALSE
    /\ initial_structure' = None
    /\ monitoring_data' = None
    /\ interaction_results' = EmptyDict

(* ------------------------------ the caller ---------------------------- *)
\* batch_analyze's loop body up to the call, and comprehensive_scrape up to the
\* retry loop: URL validation, last_error = None
CallScrape ==
    /\ pc = "idle"
    /\ urlIdx < Len(urls)
    /\ urlIdx' = urlIdx + 1
    /\ attempt' = 0
    /\ last_error' = NoError
    /\ exc' = NoError
    /\ protection_detected' = {}
    /\ final_protection' = {}
    /\ wait_successful' = FALSE
    /\ initial_structure' = None
    /\ monitoring_data' = None
    /\ interaction_results' = EmptyDict
    /\ sessionsOpened' = 0
    /\ failedAttempts' = 0
    /\ explorations' = << >>
    /\ navFailures' = 0
    /\ browser' = "none"
    /\ \E valid \in BOOLEAN :
         IF valid
         THEN /\ pc' = "open"
              /\ ret' = [kind |-> "running"]
         ELSE /\ pc' = "idle"
              /\ ret' = [kind |-> "raised", error |-> [kind |-> "ValueError", attempt |-> 0]]
    /\ UNCHANGED <<urls, max_retries, monitor_content, interact_with_elements, playwright,
                   openBrowsers, handlerRegistered, timers, instance>>
    /\ UNCHANGED frame

(* --------------------------- one attempt ------------------------------ *)
\* `for attempt in range(max_retries)`: whether the loop has another iteration
LoopContinues == attempt < max_retries

\* loop head, `with sync_playwright() as p`, chromium.launch
OpenSession ==
    /\ pc = "open"
    /\ IF ~LoopContinues
       THEN /\ pc' = "exhausted"
            /\ UNCHANGED <<session, sessionsOpened, ret>>
       ELSE \E launched \in BOOLEAN :
         IF launched
         THEN /\ playwright' = "running"
              /\ browser' = "open"
              /\ openBrowsers' = openBrowsers + 1
              /\ sessionsOpened' = sessionsOpened + 1
              /\ pc' = "setup"
              /\ UNCHANGED <<handlerRegistered, ret>>
         ELSE /\ Propagate("launch")
              /\ UNCHANGED <<browser, openBrowsers, sessionsOpened>>
    /\ UNCHANGED <<attempt, callArgs, locals, timers, instance, failedAttempts, explorations, navFailures>>
    /\ UNCHANGED frame

\* browser.new_context, setup_stealth_context, context.route, context.new_page,
\* page.set_default_timeout, inject_stealth_scripts: all before the try block
SetupPage ==
    /\ pc = "setup"
    /\ \E ok \in BOOLEAN :
         IF ok
         THEN /\ pc' = "goto"
              /\ UNCHANGED <<playwright, handlerRegistered, ret>>
         ELSE Propagate("setup")
    /\ UNCHANGED <<attempt, callArgs, locals, browser, openBrowsers, timers, instance,
                   history>>
    /\ UNCHANGED frame

\* page.goto(url, wait_until='domcontentloaded'); simulate_human_behavior swallows
\* its own errors
Navigate ==
    /\ pc = "goto"
    /\ \E ok \in BOOLEAN :
         IF ok
         THEN /\ pc' = "protection_check"
              /\ UNCHANGED <<exc, navFailures>>
         ELSE /\ Raise("goto")
              /\ navFailures' = navFailures + 1
    /\ UNCHANGED <<attempt, callArgs, last_error, protection_detected, final_protection,
                   wait_successful, initial_structure, monitoring_data, interaction_results,
                   session, timers, instance, sessionsOpened, failedAttempts, explorations, ret>>
    /\ UNCHANGED frame

\* title = page.title(); protection_detected = _detect_bot_protection(page, title);
\* the branch on a Cloudflare signature.  bypass_cloudflare_iuam, run for a
\* 'checking your browser' signature, only waits and swallows its own errors.
ProtectionCheck ==
    /\ pc = "protection_check"
    /\ \/ /\ Raise("title")
          /\ UNCHANGED <<protection_detected, cfElapsed>>
       \/ \E t \in PageTitles, sel \in PageSelectorHits, minimal \in PageMinimal :
            LET sig == DetectBotProtection(t, sel, minimal) IN
            /\ protection_detected' = sig
            /\ IF sig # {} /\ MentionsCloudflare(sig)
               THEN pc' = "cf_wait" /\ cfElapsed' = 0
               ELSE pc' = "wait_strategies" /\ UNCHANGED cfElapsed
            /\ UNCHANGED exc
    /\ UNCHANGED <<attempt, callArgs, last_error, final_protection, wait_successful,
                   initial_structure, monitoring_data, interaction_results, session,
                   stableElapsed, instance, sessionsOpened, failedAttempts, explorations, navFailures, ret>>
    /\ UNCHANGED frame

\* a Cloudflare retry test that also retries on the last attempt
CloudflareRetryOnLastAttempt == attempt < max_retries

\* `if attempt < max_retries - 1` after a failed Cloudflare bypass
CloudflareRetryRemains == attempt < max_retries - 1

\* wait_for_cloudflare(page, max_wait=30): one iteration of its loop, and what
\* comprehensive_scrape does with the value it returns
CloudflarePoll ==
    /\ pc = "cf_wait"
    /\ IF cfElapsed >= CloudflareMaxWait
       THEN \* returned False
            /\ cfElapsed' = 0
            /\ IF CloudflareRetryRemains
               THEN pc' = "cf_retry_close" /\ UNCHANGED exc
               ELSE Raise("cloudflare_bypass")
       ELSE \/ \* page.title() raised: time.sleep(1)
               /\ cfElapsed' = cfElapsed + 1
               /\ UNCHANGED <<pc, exc>>
            \/ \E t \in PageTitles :
                 IF TitleBlocked(t)
                 THEN /\ cfElapsed' = cfElapsed + 1
                      /\ UNCHANGED <<pc, exc>>
                 ELSE \* returned True
                      /\ pc' = "wait_strategies"
                      /\ cfElapsed' = 0
                      /\ UNCHANGED exc
    /\ UNCHANGED <<attempt, callArgs, last_error, protection_detected, final_protection,
                   wait_successful, initial_structure, monitoring_data, interaction_results,
                   session, stableElapsed, instance, sessionsOpened, failedAttempts, explorations, navFailures, ret>>
    /\ UNCHANGED frame

\* "Cloudflare bypass failed, retrying...": browser.close(); continue
CloudflareRetryClose ==
    /\ pc = "cf_retry_close"
    /\ \E outcome \in CloseOutcomes :
         /\ browser' = BrowserAfterClose(outcome)
         /\ openBrowsers' = OpenAfterClose(outcome)
         /\ IF CloseRaises(outcome)
            THEN /\ Raise("close")
                 /\ UNCHANGED <<attempt, failedAttempts, explorations, playwright, handlerRegistered,
                                protection_detected, final_protection, wait_successful,
                                initial_structure, monitoring_data, interaction_results>>
            ELSE NextAttempt
    /\ UNCHANGED <<callArgs, last_error, timers, instance, sessionsOpened, navFailures, ret>>
    /\ UNCHANGED frame

\* wait_for_content_settlement catches every Exception itself (utils.py), so the
\* try around it in strategy 2 never sees one
SettlementRaises == FALSE

\* the three waiting strategies: networkidle, content settlement, fixed fallback wait
WaitStrategies ==
    /\ pc = "wait_strategies"
    /\ \E networkidle \in BOOLEAN :
         LET afterStrategy1 == networkidle
             afterStrategy2 == IF ~afterStrategy1 THEN ~SettlementRaises ELSE afterStrategy1
         IN  wait_successful' = afterStrategy2
    /\ pc' = "final_check"
    /\ UNCHANGED <<attempt, callArgs, last_error, exc, protection_detected, final_protection,
                   initial_structure, monitoring_data, interaction_results, session, timers,
                   instance, history, ret>>
    /\ UNCHANGED frame

\* the later detection always superseding the earlier one
LatestProtection(first, final) == final

\* `if final_protection and final_protection != protection_detected:
\*      protection_detected = final_protection`
UpdatedProtection(first, final) ==
    IF final # {} /\ final # first THEN final ELSE first

\* an attempt that jumps to its completion once initial_structure is captured
StraightToCompletion == "close_return"

\* where the attempt goes on once initial_structure is captured: Phase 2 when
\* monitor_content is set, else Phase 3
AfterInitialStructure == IF monitor_content THEN "monitoring" ELSE "phase3"

\* final_title = page.title(); the re-check of the protection; the capture of
\* initial_structure and the fields added to it
FinalCheck ==
    /\ pc = "final_check"
    /\ \/ /\ Raise("title")
          /\ UNCHANGED <<protection_detected, final_protection, initial_structure>>
       \/ \E t \in PageTitles, sel \in PageSelectorHits, minimal \in PageMinimal,
             captured \in BOOLEAN :
            LET sig == DetectBotProtection(t, sel, minimal) IN
            /\ final_protection' = sig
            /\ protection_detected' = UpdatedProtection(protection_detected, sig)
            /\ IF captured
               THEN /\ initial_structure' =
                         [origin |-> Origin,
                          protection_detected |-> protection_detected',
                          wait_strategy_used |->
                              IF wait_successful THEN "networkidle" ELSE "fallback"]
                    /\ pc' = AfterInitialStructure
                    /\ UNCHANGED exc
               ELSE /\ Raise("capture")
                    /\ UNCHANGED initial_structure
    /\ UNCHANGED <<attempt, callArgs, last_error, wait_successful, monitoring_data,
                   interaction_results, session, timers, instance, sessionsOpened,
                   failedAttempts, explorations, navFailures, ret>>
    /\ UNCHANGED frame

(* ---------------------- monitoring and exploration -------------------- *)
\* _capture_content_snapshot: the snapshot it appends to content_timeline
Snapshot(type) == [type |-> type, origin |-> Origin]

\* explore_expandable_content: every discovered element gets a fresh record under
\* its element id in self.expanded_states; records of other ids stay
Explore(states, found) ==
    [e \in (DOMAIN states) \cup found |->
        IF e \in found THEN [origin |-> Origin] ELSE states[e]]

\* monitor_dynamic_content: start_monitoring (mutation observer, request handler)
\* and the initial snapshot
StartMonitoring ==
    /\ pc = "monitoring"
    /\ \/ \* _setup_mutation_observer or the initial snapshot raised (no page event
          \* is dispatched between here and the end of the attempt)
          /\ Raise("monitor")
          /\ UNCHANGED <<handlerRegistered, content_timeline>>
       \/ /\ handlerRegistered' = TRUE
          /\ content_timeline' = Append(content_timeline, Snapshot("initial"))
          /\ pc' = IF interact_with_elements THEN "mon_hook" ELSE "mon_wait"
          /\ UNCHANGED exc
    /\ stableElapsed' = 0
    /\ UNCHANGED <<attempt, callArgs, last_error, protection_detected, final_protection,
                   wait_successful, initial_structure, monitoring_data, interaction_results,
                   playwright, browser, openBrowsers, cfElapsed, results, expanded_states,
                   api_calls, sessionsOpened, failedAttempts, explorations, navFailures, ret>>
    /\ UNCHANGED frame

\* a hook error that ends the monitoring and reaches the attempt's except clause
HookErrorAbortsMonitoring == "handler"

\* `except Exception as e: print(f"Error during interactions: {e}")`: after a hook
\* that raised, monitor_dynamic_content goes on with the stability wait
AfterHookError == "mon_wait"

\* the interaction callback inside the monitoring window; what it raises is
\* printed and dropped by monitor_dynamic_content
InteractionHook ==
    /\ pc = "mon_hook"
    /\ explorations' = Append(explorations, "hook")
    /\ \/ \* _find_expandable_elements raised
          /\ UNCHANGED expanded_states
          /\ pc' = AfterHookError
       \/ \E found \in SUBSET Elements :
            /\ expanded_states' = Explore(expanded_states, found)
            /\ pc' = "mon_wait"
    /\ UNCHANGED <<attempt, callArgs, locals, session, timers, results, content_timeline,
                   api_calls, sessionsOpened, failedAttempts, navFailures, ret>>
    /\ UNCHANGED frame

\* _wait_for_content_stability: one iteration of its loop.  `changed` stands for
\* current_mutations != last_mutation_count at this poll; stableElapsed is
\* time.time() - stable_start in units of 100 ms (0 again once the wait is left).
StabilityPoll ==
    /\ pc = "mon_wait"
    /\ IF stableElapsed >= StabilityMaxWait
       THEN pc' = "mon_final" /\ stableElapsed' = 0
       ELSE \E changed \in BOOLEAN :
              IF changed
              THEN \* stable_start = time.time(); time.sleep(0.1)
                   /\ stableElapsed' = ResetSleep
                   /\ UNCHANGED pc
              ELSE \* time.sleep(0.5), then the test against stability_duration
                   IF stableElapsed + StableSleep >= StabilityDuration
                   THEN pc' = "mon_final" /\ stableElapsed' = 0
                   ELSE pc' = "mon_wait" /\ stableElapsed' = stableElapsed + StableSleep
    /\ UNCHANGED <<attempt, callArgs, locals, session, cfElapsed, instance, history, ret>>
    /\ UNCHANGED frame

\* the mutation log _retrieve_mutations hands to stop_monitoring on the model's
\* pages: one event of the page of the running attempt
MutationLogs == { <<[origin |-> Origin, timestamp |-> 0]>> }

\* a rate test that includes its boundary
RateAtLeast(mutation_count, time_span, perSecond) ==
    time_span > 0 /\ mutation_count * 1000 >= perSecond * time_span

\* `mutations_per_second > perSecond`, where mutations_per_second is
\* mutation_count / (time_span / 1000) if time_span > 0 and 0 otherwise (time_span
\* in whole milliseconds; the float quotient compares like the exact one)
RateExceeds(mutation_count, time_span, perSecond) ==
    time_span > 0 /\ mutation_count * 1000 > perSecond * time_span

\* time_span = mutations[-1]['timestamp'] - mutations[0]['timestamp']
TimeSpan(mutations) == mutations[Len(mutations)].timestamp - mutations[1].timestamp

\* the activity_level of a non-empty mutation log
ActivityLevel(mutations) ==
    IF RateExceeds(Len(mutations), TimeSpan(mutations), 5) THEN "high"
    ELSE IF RateExceeds(Len(mutations), TimeSpan(mutations), 1) THEN "medium"
    ELSE "low"

\* a rate that takes a log without timespan as the events of one second
RatePerSecondAtLeast(mutation_count, time_span) ==
    IF time_span > 0
    THEN (2 * mutation_count * 100000 + time_span) \div (2 * time_span)
    ELSE mutation_count * 100

\* round(mutations_per_second, 2), in hundredths: mutation_count / (time_span /
\* 1000) to the nearest hundredth if time_span > 0, and 0 otherwise
MutationsPerSecond(mutation_count, time_span) ==
    IF time_span > 0
    THEN (2 * mutation_count * 100000 + time_span) \div (2 * time_span)
    ELSE 0

\* _generate_monitoring_summary (mutations_per_second in hundredths)
GenerateMonitoringSummary(mutations, calls) ==
    IF mutations = << >>
    THEN [total_mutations |-> 0, activity_level |-> "none"]
    ELSE [total_mutations |-> Len(mutations),
          time_span_ms |-> TimeSpan(mutations),
          mutations_per_second |->
              MutationsPerSecond(Len(mutations), TimeSpan(mutations)),
          activity_level |-> ActivityLevel(mutations),
          api_calls_detected |-> Len(calls)]

\* the final snapshot, stop_monitoring and the assembly of monitoring_data; the
\* mutation log is a fresh list read from the page, 'api_calls' and 'timeline'
\* are the monitor's own lists
FinishMonitoring ==
    /\ pc = "mon_final"
    /\ \/ /\ Raise("monitor")
          /\ UNCHANGED <<content_timeline, monitoring_data>>
       \/ \E mutations \in MutationLogs :
            /\ content_timeline' = Append(content_timeline, Snapshot("final"))
            /\ monitoring_data' = [origin |-> Origin,
                                   mutations |-> mutations,
                                   api_calls |-> api_calls,
                                   timeline |-> content_timeline',
                                   summary |-> GenerateMonitoringSummary(mutations, api_calls)]
            /\ pc' = "phase3"
            /\ UNCHANGED exc
    /\ UNCHANGED <<attempt, callArgs, last_error, protection_detected, final_protection,
                   wait_successful, initial_structure, interaction_results, session, timers,
                   results, expanded_states, api_calls, sessionsOpened, failedAttempts, explorations, navFailures, ret>>
    /\ UNCHANGED frame

\* the page issues an API-like request while handle_request is registered;
\* monitoring_data['api_calls'] is the list object self.api_calls itself, so a
\* request logged after stop_monitoring shows in it too
PageRequest ==
    /\ handlerRegistered
    /\ pc \in {"mon_hook", "mon_wait", "mon_final", "phase3", "phase4"}
    /\ Len(api_calls) < MaxApiCalls
    /\ api_calls' = Append(api_calls, [origin |-> Origin])
    /\ monitoring_data' = IF "api_calls" \in DOMAIN monitoring_data
                          THEN [monitoring_data EXCEPT !.api_calls = api_calls']
                          ELSE monitoring_data
    /\ UNCHANGED <<pc, attempt, callArgs, last_error, exc, protection_detected,
                   final_protection, wait_successful, initial_structure,
                   interaction_results, session, timers, results, expanded_states,
                   content_timeline, history, ret>>
    /\ UNCHANGED frame

\* a test for the direct exploration that looks at interact_with_elements alone
ExploresWheneverInteracting == interact_with_elements

\* `if interact_with_elements and not monitor_content`
ExploresDirectly == interact_with_elements /\ ~monitor_content

\* Phase 3: direct exploration when there was no monitoring, else the engine's
\* accumulated states are taken as the interaction results
Phase3 ==
    /\ pc = "phase3"
    /\ IF ExploresDirectly
       THEN /\ explorations' = Append(explorations, "direct")
            /\ \/ /\ Raise("explore")
                  /\ UNCHANGED <<expanded_states, interaction_results>>
               \/ \E found \in SUBSET Elements :
                    /\ expanded_states' = Explore(expanded_states, found)
                    /\ interaction_results' = expanded_states'
                    /\ pc' = "phase4"
                    /\ UNCHANGED exc
       ELSE /\ interaction_results' =
                   IF monitor_content /\ interact_with_elements
                   THEN expanded_states ELSE EmptyDict
            /\ pc' = "phase4"
            /\ UNCHANGED <<exc, expanded_states, explorations>>
    /\ UNCHANGED <<attempt, callArgs, last_error, protection_detected, final_protection,
                   wait_successful, initial_structure, monitoring_data, session, timers,
                   results, content_timeline, api_calls, sessionsOpened, failedAttempts, navFailures, ret>>
    /\ UNCHANGED frame

(* ------------------------ completion and failure ---------------------- *)
\* the dict assigned to self.results when an attempt completes (the specification
\* and the summary are computed from the fields kept here)
CompiledResults(final_structure) ==
    [url |-> urls[urlIdx],
     initial_structure |-> initial_structure,
     final_structure |-> final_structure,
     interaction_results |-> interaction_results,
     monitoring_data |-> monitoring_data,
     attempts_made |-> attempt + 1]

\* the structure captured in Phase 4 with the fields comprehensive_scrape adds to it
FinalStructure == [origin |-> Origin, raw_page_info |-> Origin]

\* Phase 4 and 5 (either may raise) and the assignment of self.results
FinalCapture ==
    /\ pc = "phase4"
    /\ \/ /\ Raise("capture")
          /\ UNCHANGED results
       \/ /\ results' = CompiledResults(FinalStructure)
          /\ pc' = "close_return"
          /\ UNCHANGED exc
    /\ UNCHANGED <<attempt, callArgs, last_error, protection_detected, final_protection,
                   wait_successful, initial_structure, monitoring_data, interaction_results,
                   session, timers, expanded_states, content_timeline, api_calls,
                   sessionsOpened, failedAttempts, explorations, navFailures, ret>>
    /\ UNCHANGED frame

\* browser.close(); return self.results
CloseAndReturn ==
    /\ pc = "close_return"
    /\ \E outcome \in CloseOutcomes :
         /\ browser' = BrowserAfterClose(outcome)
         /\ openBrowsers' = OpenAfterClose(outcome)
         /\ IF CloseRaises(outcome)
            THEN /\ Raise("close")
                 /\ UNCHANGED <<playwright, handlerRegistered, ret>>
            ELSE /\ ret' = [kind |-> "returned", value |-> results]
                 /\ pc' = "idle"
                 /\ ExitWith
                 /\ UNCHANGED exc
    /\ UNCHANGED <<attempt, callArgs, last_error, protection_detected, final_protection,
                   wait_successful, initial_structure, monitoring_data, interaction_results,
                   timers, instance, sessionsOpened, failedAttempts, explorations, navFailures>>
    /\ UNCHANGED frame

\* a retry test that stops one attempt early
RetryStopsOneEarly == attempt < max_retries - 2

\* whether the except clause goes on to another attempt
RetryRemains == attempt < max_retries - 1

\* the loop index reported instead of the number of attempts
AttemptIndexAsAttemptsMade == attempt

\* the value of 'attempts_made' in error_result
ExhaustedAttemptsMade == max_retries

\* the dict built after the loop when no attempt completed
ErrorResult(error) ==
    [url |-> urls[urlIdx],
     error |-> error,
     partial_results |-> results,
     attempts_made |-> ExhaustedAttemptsMade]

\* except Exception as e: last_error = e; browser.close(); continue or break
HandleError ==
    /\ pc = "handler"
    /\ last_error' = exc
    /\ \E outcome \in CloseOutcomes :
         /\ browser' = BrowserAfterClose(outcome)
         /\ openBrowsers' = OpenAfterClose(outcome)
         /\ IF CloseRaises(outcome)
            THEN \* raised inside the except clause: nothing catches it
                 /\ Propagate("close")
                 /\ UNCHANGED <<attempt, failedAttempts, explorations, attemptLocals>>
            ELSE IF RetryRemains
            THEN /\ NextAttempt
                 /\ UNCHANGED ret
            ELSE /\ failedAttempts' = failedAttempts + 1
                 /\ explorations' = << >>
                 /\ pc' = "exhausted"
                 /\ ExitWith
                 /\ UNCHANGED <<attempt, attemptLocals, ret>>
    /\ UNCHANGED <<callArgs, timers, instance, sessionsOpened, navFailures>>
    /\ UNCHANGED frame

\* "If we get here, all attempts failed": the error result is returned
ReturnError ==
    /\ pc = "exhausted"
    /\ ret' = [kind |-> "returned", value |-> ErrorResult(last_error)]
    /\ pc' = "idle"
    /\ UNCHANGED <<attempt, callArgs, locals, session, timers, instance, history>>
    /\ UNCHANGED frame

Next ==
    \/ CallScrape
    \/ OpenSession
    \/ SetupPage
    \/ Navigate
    \/ ProtectionCheck
    \/ CloudflarePoll
    \/ CloudflareRetryClose
    \/ WaitStrategies
    \/ FinalCheck
    \/ StartMonitoring
    \/ InteractionHook
    \/ StabilityPoll
    \/ FinishMonitoring
    \/ PageRequest
    \/ Phase3
    \/ FinalCapture
    \/ CloseAndReturn
    \/ HandleError
    \/ ReturnError

Spec == Init /\ [][Next]_vars

\* the program is a single thread that always takes its next step
FairSpec == Spec /\ WF_vars(Next)

(* ------------------------- external interrupt ------------------------- *)
\* the waits of an attempt: wait_for_cloudflare, the waiting strategies and
\* _wait_for_content_stability
InterruptibleWaits == {"cf_wait", "wait_strategies", "mon_wait"}

\* KeyboardInterrupt raised in a wait.  It is no Exception, so neither the waits'
\* own handlers (utils.py 164, 261; content_monitor.py 162) nor the except clause
\* of the attempt (scraper.py 283) nor batch_analyze's (505) catch it: the with
\* block is left and the interrupt travels up to cli.main (cli.py 230).
Interrupt ==
    /\ pc \in InterruptibleWaits
    /\ pc' = "interrupted"
    /\ ret' = [kind |-> "raised", error |-> Error("KeyboardInterrupt")]
    /\ ExitWith
    /\ cfElapsed' = 0
    /\ stableElapsed' = 0
    /\ UNCHANGED <<attempt, callArgs, locals, browser, openBrowsers, instance, history,
                   frame>>

InterruptNext == Next \/ Interrupt

InterruptSpec == Init /\ [][InterruptNext]_vars

(* ================= component functions run on their own ================ *)
\* largest number of events in a mutation log handed to the summary
MaxMutations == 6
\* event timestamps in ms since the observer started
Timestamps == {0, 200, 1000, 1200, 2000, 5000, 6000}

\* a mutation log of n events, the first at `first` and the last at `last`
MutationLog(n, first, last) ==
    [i \in 1..n |-> [timestamp |-> IF i = n /\ n > 1 THEN last ELSE first]]

\* the instance is idle while a component function is run on its own
UnitInit ==
    /\ Init
    /\ urls = <<"A">>
    /\ max_retries = 1
    /\ monitor_content
    /\ interact_with_elements

\* ContentMonitor._generate_monitoring_summary(mutations) on a monitor whose
\* api_calls list has `calls` entries
SummaryCall ==
    /\ frame = NoFrame
    /\ \E n \in 0..MaxMutations, first \in Timestamps, last \in Timestamps,
          calls \in {EmptyList, <<[origin |-> <<"A", 1>>]>>} :
         /\ first <= last
         /\ frame' = [fn |-> "_generate_monitoring_summary",
                      mutations |-> MutationLog(n, first, last),
                      value |-> GenerateMonitoringSummary(MutationLog(n, first, last),
                                                          calls)]
    /\ UNCHANGED scraperVars

\* setTimeout(checkStability, 100): ms between two polls of the page height
PollInterval == 100
\* the max_wait_time arguments in use: the default and the nested handler's
SettlementMaxWaits == {3000, 10000}
\* the stability_duration arguments explored: the default and a longer hold
SettlementHolds == {1000, 2000}

\* ScrapingUtils.wait_for_content_settlement(page, max_wait_time, stability_duration)
\* is called: the script starts with stableFor = 0 and iterations = 0
SettlementCall ==
    /\ frame = NoFrame
    /\ \E max_wait_time \in SettlementMaxWaits, stability_duration \in SettlementHolds :
         frame' = [fn |-> "wait_for_content_settlement",
                   max_wait_time |-> max_wait_time,
                   stability_duration |-> stability_duration,
                   iterations |-> 0,
                   stableFor |-> 0,
                   held |-> FALSE,
                   returned |-> FALSE,
                   value |-> "None"]
    /\ UNCHANGED scraperVars

\* one run of checkStability; when the promise resolves, page.evaluate returns
\* and the function ends without a return statement (`held`: the promise was
\* resolved because stableFor reached stability_duration)
SettlementPoll ==
    /\ frame.fn = "wait_for_content_settlement"
    /\ ~frame.returned
    /\ LET iterations == frame.iterations + 1
           maxIterations == frame.max_wait_time \div PollInterval
       IN  IF iterations >= maxIterations
           THEN frame' = [frame EXCEPT !.iterations = iterations, !.returned = TRUE]
           ELSE \E sameHeight \in BOOLEAN :
                  IF sameHeight
                  THEN LET stableFor == frame.stableFor + PollInterval IN
                       frame' = [frame EXCEPT !.iterations = iterations,
                                              !.stableFor = stableFor,
                                              !.held = stableFor >= frame.stability_duration,
                                              !.returned = stableFor >= frame.stability_duration]
                  ELSE frame' = [frame EXCEPT !.iterations = iterations, !.stableFor = 0]
    /\ UNCHANGED scraperVars

\* page.evaluate raised: the error is printed, time.sleep(max_wait_time / 1000),
\* and the function ends without a return statement
SettlementError ==
    /\ frame.fn = "wait_for_content_settlement"
    /\ ~frame.returned
    /\ frame' = [frame EXCEPT !.returned = TRUE]
    /\ UNCHANGED scraperVars

\* the max_wait arguments explored: a short one and the one comprehensive_scrape uses
CloudflareMaxWaits == {3, CloudflareMaxWait}

\* the titles page.title() can return during a wait
WaitTitles == PageTitles \cup {{"checking your browser"}}

\* ScrapingUtils.wait_for_cloudflare(page, max_wait) is called: start_time is taken
CloudflareWaitCall ==
    /\ frame = NoFrame
    /\ \E max_wait \in CloudflareMaxWaits :
         frame' = [fn |-> "wait_for_cloudflare",
                   max_wait |-> max_wait,
                   elapsed |-> 0,
                   raisedPolls |-> 0,
                   earlierTitles |-> {},
                   lastTitle |-> {"unread"},
                   returned |-> FALSE,
                   value |-> "None"]
    /\ UNCHANGED scraperVars

\* one test of the loop condition and, if it holds, one pass through the loop body;
\* elapsed is time.time() - start_time in seconds, one per time.sleep(1)
CloudflareWaitPoll ==
    /\ frame.fn = "wait_for_cloudflare"
    /\ ~frame.returned
    /\ IF frame.elapsed >= frame.max_wait
       THEN frame' = [frame EXCEPT !.returned = TRUE, !.value = "False"]
       ELSE \/ \* page.title() raised: except Exception: time.sleep(1)
               frame' = [frame EXCEPT !.raisedPolls = @ + 1, !.elapsed = @ + 1]
            \/ \E t \in WaitTitles :
                 LET read == [frame EXCEPT
                                !.earlierTitles = IF frame.lastTitle = {"unread"} THEN @
                                                  ELSE @ \cup {frame.lastTitle},
                                !.lastTitle = t]
                 IN  IF TitleBlocked(t)
                     THEN frame' = [read EXCEPT !.elapsed = @ + 1]
                     ELSE frame' = [read EXCEPT !.returned = TRUE, !.value = "True"]
    /\ UNCHANGED scraperVars

(* ---- DynamicContentExplorer (dynamic_content.py), functions run alone ---- *)
\* an element descriptor as _find_expandable_elements builds it: className is
\* the list of class tokens that single spaces separate, text is <<head, tail>>
\* with head its first 50 characters
Descriptor(id, tagName, className, text) ==
    [id |-> id, tagName |-> tagName, className |-> className, text |-> text]

\* the descriptors the model's pages hand out
PageElements ==
    { Descriptor("", "DETAILS", << >>, <<"More", "">>),
      Descriptor("", "DETAILS", << >>, <<"Less", "">>),
      Descriptor("a", "DETAILS", << >>, <<"More", "">>),
      Descriptor("a", "BUTTON", <<"x", "y">>, <<"Less", "">>) }

\* str(hash(s))[:8] for the text heads of the model: hash() of a str depends on
\* the interpreter's hash seed, fixed while the process lives
TextHeads == {"More", "Less"}
Digests == [TextHeads -> {"12345678", "-7654321"}]

RECURSIVE JoinWith(_, _)
\* sep.join(parts)
JoinWith(parts, sep) ==
    IF parts = << >> THEN ""
    ELSE IF Len(parts) = 1 THEN Head(parts)
    ELSE Head(parts) \o sep \o JoinWith(Tail(parts), sep)

\* filter(None, parts): the empty strings are dropped
FilterNone(parts) == SelectSeq(parts, LAMBDA part : part # "")

\* the signature built from tag, classes and text digest
SignatureFromParts(element_info, digest) ==
    JoinWith(FilterNone(<< element_info.tagName,
                           JoinWith(element_info.className, "_"),
                           digest[element_info.text[1]] >>), "_")

\* a signature that is built from the parts even when there is an id
SignatureIgnoringId(element_info, digest) == SignatureFromParts(element_info, digest)

\* DynamicContentExplorer._generate_element_id
GenerateElementId(element_info, digest) ==
    IF element_info.id # ""
    THEN "id_" \o element_info.id
    ELSE SignatureFromParts(element_info, digest)

\* dict[k] = v
Put(dict, k, v) == [x \in DOMAIN dict \cup {k} |-> IF x = k THEN v ELSE dict[x]]

\* what _expand_element can return: <<success, content_changed>>; it catches
\* every Exception itself
ExpandOutcomes == { <<TRUE, TRUE>>, <<TRUE, FALSE>>, <<FALSE, FALSE>> }

\* result of _expand_element as the records keep it
InteractionResult(outcome) == [success |-> outcome[1], content_changed |-> outcome[2]]

\* nested_elements[:5]
NestedLimit == 5
\* a depth test that lets the level after max_depth through
DepthBeyondNext(depth, max_depth) == depth > max_depth + 1
\* `if depth > max_depth`
DepthExceeded(depth, max_depth) == depth > max_depth
\* {'skipped': 'Max depth reached'}
Sentinel == [skipped |-> "Max depth reached"]

RECURSIVE NestedResults(_, _, _, _, _)
\* the for loop of _handle_nested_expandables over elements 1..n
NestedResults(elements, outcomes, n, depth, digest) ==
    IF n = 0 THEN EmptyDict
    ELSE Put(NestedResults(elements, outcomes, n - 1, depth, digest),
             GenerateElementId(elements[n], digest),
             [element_info |-> elements[n],
              interaction_result |-> InteractionResult(outcomes[n]),
              depth |-> depth])

\* DynamicContentExplorer._handle_nested_expandables: the returned dict and the
\* number of _expand_element calls made
HandleNestedExpandables(nested_elements, outcomes, depth, max_depth, digest) ==
    IF DepthExceeded(depth, max_depth)
    THEN [value |-> Sentinel, attempts |-> 0]
    ELSE LET n == IF Len(nested_elements) > NestedLimit THEN NestedLimit
                  ELSE Len(nested_elements)
         IN  [value |-> NestedResults(nested_elements, outcomes, n, depth, digest),
              attempts |-> n]

\* bounds of the nested handler's arguments
MaxNested == 2
MaxDepth == 3
\* lists of at most n page elements
ElementLists(n) == UNION { [1..k -> PageElements] : k \in 0..n }
\* a list longer than the nested handler's limit
LongList == [i \in 1..(NestedLimit + 1) |-> Descriptor("", "DETAILS", << >>, <<"More", "">>)]

\* the one nested list a page of the model reveals inside an expanded parent
RevealedList == << Descriptor("", "DETAILS", << >>, <<"Less", "">>) >>

\* _handle_nested_expandables(page, nested_elements, depth, max_depth); `inside`
\* are the disclosure elements the page shows inside the first of
\* nested_elements once that one is expanded (the handler never looks for them)
NestedCall ==
    /\ frame = NoFrame
    /\ \E nested_elements \in ElementLists(MaxNested) \cup {LongList},
          depth \in 0..(MaxDepth + 1), max_depth \in 0..MaxDepth, digest \in Digests :
         \E outcomes \in [1..Len(nested_elements) -> ExpandOutcomes],
            inside \in {<< >>, RevealedList} :
            LET done == HandleNestedExpandables(nested_elements, outcomes, depth,
                                                max_depth, digest)
            IN  frame' = [fn |-> "_handle_nested_expandables",
                          nested_elements |-> nested_elements,
                          outcomes |-> outcomes,
                          inside |-> inside,
                          depth |-> depth,
                          max_depth |-> max_depth,
                          attempts |-> done.attempts,
                          value |-> done.value]
    /\ UNCHANGED scraperVars

\* the descriptors _generate_element_id is tried on: with and without id, two
\* tags, class lists that differ only in a space or an underscore, texts that
\* differ in their head or only after their first 50 characters
AllDescriptors ==
    { Descriptor(id, tagName, className, text) :
        id \in {"", "a", "b"},
        tagName \in {"DETAILS", "BUTTON"},
        className \in { << >>, <<"x", "y">>, <<"x_y">> },
        text \in { <<"More", "">>, <<"More", "1">>, <<"Less", "">> } }

\* _generate_element_id(element_info), computed twice in one process
ElementIdCall ==
    /\ frame = NoFrame
    /\ \E element_info \in AllDescriptors, digest \in Digests :
         frame' = [fn |-> "_generate_element_id",
                   element_info |-> element_info,
                   value |-> GenerateElementId(element_info, digest),
                   again |-> GenerateElementId(element_info, digest)]
    /\ UNCHANGED scraperVars

\* the number of elements _find_expandable_elements returns is at most this
MaxElements == 3
\* _find_nested_expandables: [] unless the parent is found by its id
FindNestedExpandables(parent_element_info, revealed) ==
    IF parent_element_info.id # "" THEN revealed ELSE << >>

\* the entry of expanded_states for one element after the loop body ran
ExpandedState(element_info, outcome, revealed, digest) ==
    LET new_expandables == FindNestedExpandables(element_info, revealed)
    IN  IF outcome[1] /\ new_expandables # << >>
        THEN [element_info |-> element_info,
              interaction_result |-> InteractionResult(outcome),
              expanded |-> outcome[1],
              nested_expandables |->
                  HandleNestedExpandables(new_expandables, <<outcome>>, 1, 3,
                                          digest).value]
        ELSE [element_info |-> element_info,
              interaction_result |-> InteractionResult(outcome),
              expanded |-> outcome[1]]

RECURSIVE ExpandedStates(_, _, _, _, _, _)
\* self.expanded_states after the for loop of explore_expandable_content ran
\* over elements 1..n, starting from the dict `before`
ExpandedStates(before, expandables, outcomes, revealedAt, n, digest) ==
    IF n = 0 THEN before
    ELSE Put(ExpandedStates(before, expandables, outcomes, revealedAt,
                            n - 1, digest),
             GenerateElementId(expandables[n], digest),
             ExpandedState(expandables[n], outcomes[n],
                           IF revealedAt = n THEN RevealedList ELSE << >>, digest))

\* DynamicContentExplorer.explore_expandable_content(page) on a fresh engine
\* (expanded_states = {}): revealedAt is the element, if any, whose expansion
\* reveals nested expandables
ExploreCall ==
    /\ frame = NoFrame
    /\ \E expandables \in ElementLists(MaxElements), digest \in Digests :
         \E outcomes \in [1..Len(expandables) -> ExpandOutcomes],
            revealedAt \in 0..Len(expandables) :
              frame' = [fn |-> "explore_expandable_content",
                        expandables |-> expandables,
                        value |-> ExpandedStates(EmptyDict, expandables, outcomes,
                                                 revealedAt, Len(expandables), digest)]
    /\ UNCHANGED scraperVars

(* ---- PageStructureCapture (structure_capture.py), run alone ---- *)
\* the reads that build structure_data, in the order the dict literal evaluates them
SubCaptures == << "title", "dom_snapshot", "interactive_elements", "meta_info",
                  "content_patterns" >>

\* the reads of SubCaptures made before the first one that raises
CapturedBefore(failing) ==
    { SubCaptures[i] : i \in { j \in 1..Len(SubCaptures) :
                                 \A k \in 1..j : SubCaptures[k] \notin failing } }

\* PageStructureCapture.capture_page_structure when the reads in `failing` raise:
\* no read is guarded, the first one that raises leaves the function
CapturePageStructure(failing) ==
    IF \E i \in 1..Len(SubCaptures) : SubCaptures[i] \in failing
    THEN [raised |-> TRUE, populated |-> {}]
    ELSE [raised |-> FALSE, populated |-> CapturedBefore(failing)]

\* capture_page_structure(page) on a page where some reads fail
CaptureCall ==
    /\ frame = NoFrame
    /\ \E failing \in SUBSET { SubCaptures[i] : i \in 1..Len(SubCaptures) } :
         LET done == CapturePageStructure(failing)
         IN  frame' = [fn |-> "capture_page_structure",
                       failing |-> failing,
                       raised |-> done.raised,
                       populated |-> done.populated]
    /\ UNCHANGED scraperVars

(* ---- ContentMonitor._wait_for_content_stability, run alone ---- *)
\* the longest time, in units of 100 ms, a wait is followed for
MaxWaited == 125

\* _wait_for_content_stability(page) is called with its defaults: stable_start is
\* taken; sinceEntry is the time since then, elapsed is time.time() - stable_start
StabilityCall ==
    /\ frame = NoFrame
    /\ frame' = [fn |-> "_wait_for_content_stability",
                 sinceEntry |-> 0,
                 elapsed |-> 0,
                 resets |-> 0,
                 returned |-> FALSE]
    /\ UNCHANGED scraperVars

\* one test of the loop condition and, if it holds, one pass through the loop body
StabilityWaitPoll ==
    /\ frame.fn = "_wait_for_content_stability"
    /\ ~frame.returned
    /\ frame.sinceEntry < MaxWaited
    /\ IF frame.elapsed >= StabilityMaxWait
       THEN frame' = [frame EXCEPT !.returned = TRUE]
       ELSE \E changed \in BOOLEAN :
              IF changed
              THEN \* stable_start = time.time(); time.sleep(0.1)
                   frame' = [frame EXCEPT !.elapsed = ResetSleep,
                                          !.resets = 1,
                                          !.sinceEntry = @ + ResetSleep]
              ELSE \* time.sleep(0.5), then the test against stability_duration
                   frame' = [frame EXCEPT
                                !.elapsed = @ + StableSleep,
                                !.sinceEntry = @ + StableSleep,
                                !.returned = (frame.elapsed + StableSleep
                                                >= StabilityDuration)]
    /\ UNCHANGED scraperVars

(* ---- DynamicContentExplorer._expand_element, run alone ---- *)
\* the expansion methods of the page script, in the order it tries them
Strategies == << "click", "aria-expanded", "details-open", "data-toggle" >>
\* the methods that have a precondition on the element (click has none)
Conditional == { "aria-expanded", "details-open", "data-toggle" }

\* the methods after click whose precondition the element meets, in script order
Applicable(applies) == SelectSeq(Tail(Strategies), LAMBDA m : m \in applies)

\* the object the page script of _expand_element returns for an element that
\* is found or not, meets the preconditions in `applies`, and on which the
\* methods in `raises` throw: click in its own try; in its catch, one try around
\* the three conditional methods, of which the first applicable one is run
ExpansionScript(found, applies, raises) ==
    IF ~found THEN [success |-> FALSE, method |-> "None", error |-> "Element not found"]
    ELSE IF "click" \notin raises
    THEN [success |-> TRUE, method |-> "click", error |-> "None"]
    ELSE IF Applicable(applies) = << >>
    THEN [success |-> FALSE, method |-> "None",
          error |-> "No suitable expansion method found"]
    ELSE IF Head(Applicable(applies)) \in raises
    THEN [success |-> FALSE, method |-> "None", error |-> "e2.message"]
    ELSE [success |-> TRUE, method |-> Head(Applicable(applies)), error |-> "None"]

\* what _capture_element_content can return for the element: one of two
\* contents, or the dict {'error': 'Element not found'}
Contents == { "collapsed", "expanded", "not_found" }

\* a change flag that compares the captures whether or not a method succeeded
ChangedWheneverDifferent(success, content_before, content_after) ==
    content_before # content_after

\* result['content_changed']: False unless success, then
\* content_before != content_after
ContentChanged(success, content_before, content_after) ==
    success /\ content_before # content_after

\* DynamicContentExplorer._expand_element: the result dict; evaluateRaises is
\* page.evaluate itself raising, which the except clause turns into an error
ExpandElement(found, applies, raises, evaluateRaises, content_before, content_after) ==
    LET script == ExpansionScript(found, applies, raises)
        success == ~evaluateRaises /\ script.success
    IN  [success |-> success,
         method_used |-> "None",
         method |-> IF evaluateRaises THEN "None" ELSE script.method,
         error |-> IF evaluateRaises THEN "str(e)" ELSE script.error,
         content_changed |-> ContentChanged(success, content_before, content_after)]

\* _expand_element(page, element_info) on an element of the model
ExpandCall ==
    /\ frame = NoFrame
    /\ \E found \in BOOLEAN, applies \in SUBSET Conditional,
          raises \in SUBSET (Conditional \cup {"click"}), evaluateRaises \in BOOLEAN,
          content_before \in Contents, content_after \in Contents :
         /\ (content_before = "not_found") <=> ~found
         /\ frame' = [fn |-> "_expand_element",
                      found |-> found,
                      applies |-> applies,
                      raises |-> raises,
                      evaluateRaises |-> evaluateRaises,
                      content_before |-> content_before,
                      content_after |-> content_after,
                      value |-> ExpandElement(found, applies, raises, evaluateRaises,
                                              content_before, content_after)]
    /\ UNCHANGED scraperVars

(* ---- one exploration pass over a page (dynamic_content.py 17-62) ---- *)
\* expandableSelectors of _find_expandable_elements, in the order it runs them
TopSelectors ==
    << "[aria-expanded=\"false\"]", "[aria-expanded=\"true\"]", "details:not([open])",
       ".expandable:not(.expanded)", ".collapsible:not(.expanded)", ".accordion-header",
       "[data-toggle=\"collapse\"]", "[data-bs-toggle=\"collapse\"]",
       ".dropdown-toggle:not(.show)", "[role=\"button\"][aria-expanded]" >>
\* nestedSelectors of _find_nested_expandables, in the order it runs them
NestedSelectors ==
    << "[aria-expanded=\"false\"]", "details:not([open])",
       ".expandable:not(.expanded)", ".collapsible:not(.expanded)" >>

\* a DOM node of a page: its descriptor fields, the node it lies in, whether it
\* has a box before anything is expanded, and the selectors it matches
Node(name, id, tagName, parent, visible, selectors) ==
    [name |-> name, id |-> id, tagName |-> tagName, parent |-> parent,
     visible |-> visible, selectors |-> selectors]

\* the pages of the model, each a list of nodes in document order: a disclosure
\* p, with or without id, a disclosure c inside p that may be visible from the
\* start and may match two selectors, and possibly a disclosure s after them
Pages ==
    { << Node("p", pid, "DIV", "none", TRUE, {psel}),
         Node("c", "c", "DIV", "p", cvisible, csel) >> \o rest :
        pid \in {"", "p"},
        psel \in {"[aria-expanded=\"false\"]", "details:not([open])"},
        cvisible \in BOOLEAN,
        csel \in { {"[aria-expanded=\"false\"]"}, {".expandable:not(.expanded)"},
                   {"[aria-expanded=\"false\"]", ".expandable:not(.expanded)"} },
        rest \in { << >>,
                   << Node("s", "s", "DIV", "none", TRUE,
                           {".expandable:not(.expanded)"}) >> } }

\* the descriptor the scans build for a node
DescriptorOf(node) == Descriptor(node.id, node.tagName, << >>, <<"More", "">>)

RECURSIVE ScanWith(_, _, _, _)
\* selectors.forEach(selector => querySelectorAll(selector).forEach(push)): the
\* nodes in `scope` with a box (those in `shown`) that match, selector by
\* selector, each time in document order
ScanWith(selectors, page, scope, shown) ==
    IF selectors = << >> THEN << >>
    ELSE SelectSeq(page, LAMBDA node : /\ Head(selectors) \in node.selectors
                                       /\ node.name \in scope
                                       /\ node.name \in shown)
         \o ScanWith(Tail(selectors), page, scope, shown)

RECURSIVE SeenOnce(_)
\* the seenElements filter: the first occurrence of every node stays
SeenOnce(nodes) ==
    IF nodes = << >> THEN << >>
    ELSE LET front == SeenOnce(SubSeq(nodes, 1, Len(nodes) - 1))
             last == nodes[Len(nodes)]
         IN  IF \E i \in 1..Len(front) : front[i].name = last.name
             THEN front ELSE Append(front, last)

\* the names of the nodes of a page, and of those shown before any expansion
NamesOf(page) == { page[i].name : i \in 1..Len(page) }
ShownAtLoad(page) == { page[i].name : i \in { j \in 1..Len(page) : page[j].visible } }
\* the nodes lying in a node
Inside(page, parent) ==
    { page[i].name : i \in { j \in 1..Len(page) : page[j].parent = parent.name } }

\* _find_expandable_elements: every selector over the document, seen nodes skipped
FindExpandableElements(page, shown) ==
    SeenOnce(ScanWith(TopSelectors, page, NamesOf(page), shown))

\* _find_nested_expandables: [] unless the parent is found by its id; then every
\* nested selector over the parent's subtree, nothing skipped
ScanInside(page, parent, shown) ==
    IF parent.id = "" THEN << >>
    ELSE ScanWith(NestedSelectors, page, Inside(page, parent), shown)

\* nested_elements[:5]
FirstFive(nodes) ==
    IF Len(nodes) > NestedLimit THEN SubSeq(nodes, 1, NestedLimit) ELSE nodes

\* the log entries of _handle_nested_expandables(page, nodes, depth=1) for a parent
NestedAttempts(nodes, parent) ==
    [i \in 1..Len(FirstFive(nodes)) |->
        [node |-> nodes[i].name, level |-> 1, under |-> parent.name]]

RECURSIVE NestedRecords(_, _, _, _)
\* the dict _handle_nested_expandables(page, nodes, depth=1) returns, for the
\* first n nodes
NestedRecords(nodes, n, succeeds, digest) ==
    IF n = 0 THEN EmptyDict
    ELSE Put(NestedRecords(nodes, n - 1, succeeds, digest),
             GenerateElementId(DescriptorOf(nodes[n]), digest),
             [node |-> nodes[n].name,
              interaction_result |-> [success |-> nodes[n].name \in succeeds],
              depth |-> 1])

RECURSIVE ExplorePass(_, _, _, _, _)
\* the for loop of explore_expandable_content over the first n discovered nodes
\* of a fresh engine: the activations made, in order, the records, and the
\* nodes that have a box by then.  An activation succeeds on the nodes in
\* `succeeds`; a node inside a successfully activated one has a box afterwards.
ExplorePass(page, discovered, n, succeeds, digest) ==
    IF n = 0
    THEN [log |-> << >>, states |-> EmptyDict, shown |-> ShownAtLoad(page)]
    ELSE LET before == ExplorePass(page, discovered, n - 1, succeeds, digest)
             node == discovered[n]
             success == node.name \in succeeds
             shown == IF success THEN before.shown \cup Inside(page, node)
                      ELSE before.shown
             new_expandables == IF success THEN ScanInside(page, node, shown)
                                ELSE << >>
             attempt0 == [node |-> node.name, level |-> 0, under |-> "none"]
             own == [node |-> node.name,
                     interaction_result |-> [success |-> success],
                     errors |-> << >>]
         IN  [log |-> Append(before.log, attempt0)
                         \o NestedAttempts(new_expandables, node),
              states |->
                  Put(before.states,
                      GenerateElementId(DescriptorOf(node), digest),
                      IF new_expandables = << >> THEN own
                      ELSE [node |-> own.node,
                            interaction_result |-> own.interaction_result,
                            errors |-> own.errors,
                            nested_expandables |->
                                NestedRecords(new_expandables,
                                              Len(FirstFive(new_expandables)),
                                              succeeds, digest)]),
              shown |-> shown]

RECURSIVE UntilFirstFailure(_, _)
\* a loop that stops at the first discovered node whose expansion fails
UntilFirstFailure(discovered, succeeds) ==
    IF discovered = << >> THEN 0
    ELSE IF Head(discovered).name \notin succeeds THEN 1
    ELSE 1 + UntilFirstFailure(Tail(discovered), succeeds)

\* `for element_info in expandables`, the body's try/except keeping every
\* failure inside its iteration: the number of discovered nodes gone through
Processed(discovered, succeeds) == Len(discovered)

\* explore_expandable_content(page) on a fresh engine and a page of the model
PassCall ==
    /\ frame = NoFrame
    /\ \E page \in Pages, digest \in Digests :
         \E succeeds \in SUBSET NamesOf(page) :
            LET discovered == FindExpandableElements(page, ShownAtLoad(page))
                done == ExplorePass(page, discovered, Processed(discovered, succeeds),
                                    succeeds, digest)
            IN  frame' = [fn |-> "explore_page",
                          page |-> page,
                          succeeds |-> succeeds,
                          discovered |-> [i \in 1..Len(discovered) |-> discovered[i].name],
                          log |-> done.log,
                          value |-> done.states]
    /\ UNCHANGED scraperVars

(* ---- the page script of _setup_mutation_observer, one monitoring window ---- *)
\* the milliseconds of a window that are followed
MaxClock == 3

\* a log that takes a new record at its front
RecordedFirst(log, record) == <<record>> \o log

\* window.contentChanges.push(record)
Recorded(log, record) == Append(log, record)

\* _setup_mutation_observer: window.contentChanges = [] and
\* window.mutationStartTime = Date.now(); now is Date.now() - mutationStartTime
ObserverStart ==
    /\ frame = NoFrame
    /\ frame' = [fn |-> "mutation_observer", now |-> 0, contentChanges |-> << >>]
    /\ UNCHANGED scraperVars

\* a millisecond passes on the page's clock
ObserverTick ==
    /\ frame.fn = "mutation_observer"
    /\ frame.now < MaxClock
    /\ frame' = [frame EXCEPT !.now = @ + 1]
    /\ UNCHANGED scraperVars

\* the observer callback handles one mutation record of the batch it was given:
\* the record is pushed with timestamp Date.now() - mutationStartTime
ObserverRecord ==
    /\ frame.fn = "mutation_observer"
    /\ Len(frame.contentChanges) < MaxMutations
    /\ frame' = [frame EXCEPT
                   !.contentChanges = Recorded(@, [type |-> "childList",
                                                   timestamp |-> frame.now])]
    /\ UNCHANGED scraperVars

(* ---- the waiting strategies of comprehensive_scrape (scraper.py 174-220) ---- *)
\* the three strategies for a page on which wait_for_load_state('networkidle')
\* returns in time or not: what wait_successful becomes, whether the fixed
\* 5 s wait is made, and the wait_strategy_used that is recorded.  Whether the
\* page settled is not an input: wait_for_content_settlement returns None
\* either way
WaitStrategyOutcome(networkidle) ==
    LET afterStrategy1 == networkidle
        afterStrategy2 == IF ~afterStrategy1 THEN ~SettlementRaises ELSE afterStrategy1
    IN  [wait_successful |-> afterStrategy2,
         fallback_wait |-> ~afterStrategy2,
         wait_strategy_used |-> IF afterStrategy2 THEN "networkidle" ELSE "fallback"]

\* the strategies run on a page that reaches network idle or not and whose
\* height settles before the settlement deadline or not
WaitStrategiesCall ==
    /\ frame = NoFrame
    /\ \E networkidle \in BOOLEAN, settled \in BOOLEAN :
         LET done == WaitStrategyOutcome(networkidle)
         IN  frame' = [fn |-> "wait_strategies",
                       networkidle |-> networkidle,
                       settled |-> settled,
                       wait_successful |-> done.wait_successful,
                       fallback_wait |-> done.fallback_wait,
                       wait_strategy_used |-> done.wait_strategy_used]
    /\ UNCHANGED scraperVars

(* ---- ContentMonitor._analyze_content_changes, run alone ---- *)
\* the content metrics the analysis can meet (the keys no test reads, such as
\* images or scripts, behave like inputs)
MetricKeys == {"totalElements", "totalTextLength", "buttons", "links", "inputs",
               "pageHeight"}
\* content_metrics of the initial snapshot
BaseMetrics == [totalElements |-> 200, totalTextLength |-> 5000, buttons |-> 3,
                links |-> 20, inputs |-> 2, pageHeight |-> 3000]
\* the differences between final and initial snapshot that are explored, at
\* and around the thresholds
MetricDeltas ==
    [totalElements : {0, 10, 11, -11}, totalTextLength : {0, 1000, 1001},
     buttons : {0, 1, -1}, links : {0, 1}, inputs : {0, 1},
     pageHeight : {0, 500, 501, -500, -501}]

\* abs(x)
Abs(x) == IF x < 0 THEN 0 - x ELSE x

\* the `changes` dict: one entry per key of both snapshots whose change is not 0
ContentMetricChanges(initial_metrics, final_metrics) ==
    [key \in { k \in DOMAIN initial_metrics \cap DOMAIN final_metrics :
                  final_metrics[k] - initial_metrics[k] # 0 } |->
        [initial |-> initial_metrics[key],
         final |-> final_metrics[key],
         change |-> final_metrics[key] - initial_metrics[key]]]

\* _identify_significant_changes: the notes, in the order they are appended,
\* each shown as the metric it is about
IdentifySignificantChanges(changes) ==
    LET has(key) == key \in DOMAIN changes
        note(flag, key) == IF flag THEN <<key>> ELSE << >>
    IN  note(has("totalElements") /\ changes["totalElements"].change > 10,
             "totalElements")
        \o note(has("totalTextLength") /\ changes["totalTextLength"].change > 1000,
                "totalTextLength")
        \o note(has("buttons") /\ changes["buttons"].change > 0, "buttons")
        \o note(has("links") /\ changes["links"].change > 0, "links")
        \o note(has("pageHeight") /\ Abs(changes["pageHeight"].change) > 500,
                "pageHeight")

\* _analyze_content_changes(initial_snapshot, final_snapshot, mutations)
AnalysisCall ==
    /\ frame = NoFrame
    /\ \E delta \in MetricDeltas :
         LET final_metrics == [key \in MetricKeys |-> BaseMetrics[key] + delta[key]]
             changes == ContentMetricChanges(BaseMetrics, final_metrics)
         IN  frame' = [fn |-> "_analyze_content_changes",
                       delta |-> delta,
                       content_metric_changes |-> changes,
                       significant_changes |-> IdentifySignificantChanges(changes)]
    /\ UNCHANGED scraperVars

(* ---- ComprehensiveScraper._detect_bot_protection, run alone ---- *)
\* protection_titles, in list order
ProtectionTitles ==
    << "just a moment", "checking your browser", "cloudflare", "access denied",
       "blocked", "captcha", "security check", "ddos protection", "rate limited" >>
\* protection_selectors, in list order
ProtectionSelectors ==
    << ".cf-browser-verification", "#challenge-form", ".grecaptcha-badge",
       "[data-sitekey]", ".challenge-running",
       "meta[name=\"robots\"][content*=\"noindex\"]" >>

\* the titles handed to the detection, each as the set of phrases its lower-case
\* form contains
DetectionTitles ==
    { {}, {"cloudflare"}, {"just a moment"}, {"just a moment", "cloudflare"},
      {"access denied"}, {"blocked", "captcha"} }
\* the protection elements a page can hold
DetectionSelectors ==
    SUBSET {".cf-browser-verification", "#challenge-form", ".grecaptcha-badge"}
\* page.query_selector('body').inner_text(): it raises, or gives a text whose
\* stripped length is `length`
BodyReads == { [raises |-> TRUE, length |-> 0],
               [raises |-> FALSE, length |-> 99],
               [raises |-> FALSE, length |-> 100] }

\* the indicators of a detection whose title loop stops at the first phrase it
\* matches
IndicatorsOfFirstPhrase(title, present, probeError, body) ==
    LET matched == SelectSeq(ProtectionTitles, LAMBDA indicator : indicator \in title)
        first == IF matched = << >> THEN << >> ELSE <<Head(matched)>>
        probed == IF probeError = 0 THEN ProtectionSelectors
                  ELSE SubSeq(ProtectionSelectors, 1, probeError - 1)
        found == SelectSeq(probed, LAMBDA selector : selector \in present)
    IN  [i \in 1..Len(first) |-> "Title contains '" \o first[i] \o "'"]
        \o [i \in 1..Len(found) |-> "Found protection element: " \o found[i]]
        \o (IF ~body.raises /\ body.length < 100
            THEN <<"Very minimal page content">> ELSE << >>)

\* the indicators appended by the three parts of _detect_bot_protection;
\* probeError is the position in protection_selectors of the probe that raises
\* (0: none does), which ends the selector loop
ProtectionIndicators(title, present, probeError, body) ==
    LET matched == SelectSeq(ProtectionTitles, LAMBDA indicator : indicator \in title)
        probed == IF probeError = 0 THEN ProtectionSelectors
                  ELSE SubSeq(ProtectionSelectors, 1, probeError - 1)
        found == SelectSeq(probed, LAMBDA selector : selector \in present)
    IN  [i \in 1..Len(matched) |-> "Title contains '" \o matched[i] \o "'"]
        \o [i \in 1..Len(found) |-> "Found protection element: " \o found[i]]
        \o (IF ~body.raises /\ body.length < 100
            THEN <<"Very minimal page content">> ELSE << >>)

\* _detect_bot_protection(page, title)
DetectCall ==
    /\ frame = NoFrame
    /\ \E title \in DetectionTitles, present \in DetectionSelectors,
          probeError \in 0..Len(ProtectionSelectors), body \in BodyReads :
         LET protection_indicators ==
                 ProtectionIndicators(title, present, probeError, body)
         IN  frame' = [fn |-> "_detect_bot_protection",
                       title |-> title,
                       present |-> present,
                       probeError |-> probeError,
                       body |-> body,
                       protection_indicators |-> protection_indicators,
                       value |-> IF protection_indicators # << >>
                                 THEN JoinWith(protection_indicators, "; ")
                                 ELSE "None"]
    /\ UNCHANGED scraperVars

(* ---- DynamicContentExplorer.get_expansion_summary, run alone ---- *)
\* the results _expand_element leaves in the records: of an element that is
\* found, on which click works or raises, and whose content changes or not
ExpandResults ==
    { ExpandElement(TRUE, applies, raises, FALSE, "collapsed", content_after) :
        applies \in SUBSET Conditional, raises \in { {}, {"click"} },
        content_after \in {"collapsed", "expanded"} }

\* dict.get(key, 0) + 1 stored under key
Tallied(dict, key) ==
    Put(dict, key, (IF key \in DOMAIN dict THEN dict[key] ELSE 0) + 1)

RECURSIVE ExpansionSummary(_, _)
\* the summary after the for loop of get_expansion_summary went through the
\* first n records of expanded_states
ExpansionSummary(states, n) ==
    IF n = 0
    THEN [total_elements |-> Len(states), successful_expansions |-> 0,
          failed_expansions |-> 0, content_changes |-> 0,
          expansion_methods |-> EmptyDict]
    ELSE LET summary == ExpansionSummary(states, n - 1)
             result == states[n].interaction_result
         IN  IF result.success
             THEN [total_elements |-> summary.total_elements,
                   successful_expansions |-> summary.successful_expansions + 1,
                   failed_expansions |-> summary.failed_expansions,
                   content_changes |-> summary.content_changes
                                       + (IF result.content_changed THEN 1 ELSE 0),
                   expansion_methods |->
                       Tallied(summary.expansion_methods, result.method_used)]
             ELSE [total_elements |-> summary.total_elements,
                   successful_expansions |-> summary.successful_expansions,
                   failed_expansions |-> summary.failed_expansions + 1,
                   content_changes |-> summary.content_changes,
                   expansion_methods |-> summary.expansion_methods]

\* get_expansion_summary() on an engine whose expanded_states holds up to
\* MaxElements records, listed in insertion order
ExpansionSummaryCall ==
    /\ frame = NoFrame
    /\ \E n \in 0..MaxElements :
         \E outcomes \in [1..n -> ExpandResults] :
            LET states == [i \in 1..n |-> [interaction_result |-> outcomes[i]]]
            IN  frame' = [fn |-> "get_expansion_summary",
                          expanded_states |-> states,
                          value |-> ExpansionSummary(states, n)]
    /\ UNCHANGED scraperVars

(* ---- ComprehensiveScraper.batch_analyze, run alone ---- *)
\* the URL lists handed to batch_analyze
BatchLists == UrlLists \cup { <<"A", "A">>, <<"A", "B", "C">> }
\* what one iteration of the loop can meet: comprehensive_scrape returns a
\* result, returns an error result, or raises; or the result is there and
\* save_spec_as_text raises while writing the file
BatchOutcomes == {"result", "error_result", "scrape_raises", "save_raises"}

RECURSIVE BatchResults(_, _, _)
\* batch_results after the for loop of batch_analyze went through the first n
\* URLs; `analysed` lists the URLs comprehensive_scrape was called with
BatchResults(list, outcomes, n) ==
    IF n = 0
    THEN [total_urls |-> Len(list), successful |-> 0, failed |-> 0,
          results |-> EmptyDict, analysed |-> << >>]
    ELSE LET batch_results == BatchResults(list, outcomes, n - 1)
             url == list[n]
             \* `if 'error' not in result`: the branch that counts a success
             counted == outcomes[n] \in {"result", "save_raises"}
             \* the except clause ran
             caught == outcomes[n] \in {"scrape_raises", "save_raises"}
             successful == batch_results.successful + (IF counted THEN 1 ELSE 0)
             failed == batch_results.failed
                       + (IF outcomes[n] = "error_result" THEN 1 ELSE 0)
                       + (IF caught THEN 1 ELSE 0)
         IN  [total_urls |-> batch_results.total_urls,
              successful |-> successful,
              failed |-> failed,
              results |-> Put(batch_results.results, url,
                              IF caught THEN "str(e)"
                              ELSE IF counted THEN "result" ELSE "error_result"),
              analysed |-> Append(batch_results.analysed, url)]

\* batch_analyze(urls)
BatchCall ==
    /\ frame = NoFrame
    /\ \E list \in BatchLists :
         \E outcomes \in [1..Len(list) -> BatchOutcomes] :
            frame' = [fn |-> "batch_analyze",
                      urls |-> list,
                      outcomes |-> outcomes,
                      value |-> BatchResults(list, outcomes, Len(list))]
    /\ UNCHANGED scraperVars

(* ---- the first protection check of an attempt, run alone ---- *)
\* title = page.title(); protection_detected = _detect_bot_protection(page,
\* title); `if protection_detected: if "cloudflare" in ...lower()`: the
\* signature and where the attempt goes next
ProtectionBranchCall ==
    /\ frame = NoFrame
    /\ \E title \in DetectionTitles, present \in DetectionSelectors,
          body \in BodyReads :
         LET protection_indicators == ProtectionIndicators(title, present, 0, body)
             sig == { protection_indicators[i] : i \in DOMAIN protection_indicators }
         IN  frame' = [fn |-> "protection_check",
                       title |-> title,
                       present |-> present,
                       body |-> body,
                       protection_detected |-> sig,
                       next |-> IF sig # {} /\ MentionsCloudflare(sig)
                                THEN "wait_for_cloudflare"
                                ELSE "wait_strategies"]
    /\ UNCHANGED scraperVars

UnitNext ==
    \/ SummaryCall
    \/ NestedCall
    \/ ElementIdCall
    \/ ExploreCall
    \/ CloudflareWaitCall
    \/ CloudflareWaitPoll
    \/ SettlementCall
    \/ SettlementPoll
    \/ SettlementError
    \/ CaptureCall
    \/ StabilityCall
    \/ StabilityWaitPoll
    \/ ExpandCall
    \/ PassCall
    \/ ObserverStart
    \/ ObserverTick
    \/ ObserverRecord
    \/ WaitStrategiesCall
    \/ AnalysisCall
    \/ DetectCall
    \/ ExpansionSummaryCall
    \/ BatchCall
    \/ ProtectionBranchCall

UnitSpec == UnitInit /\ [][UnitNext]_vars

(* ======================= properties of the coordinator ================= *)
\* the running call has handed a result dict to its caller
Returned == pc = "idle" /\ ret.kind = "returned"
\* a result dict with an 'error' key
IsErrorResult(v) == "error" \in DOMAIN v
\* the call returned the error result / the compiled results of a completed attempt
Exhausted == Returned /\ IsErrorResult(ret.value)
Completed == Returned /\ ~IsErrorResult(ret.value)
\* a structure that was captured (not None)
Captured(structure) == "origin" \in DOMAIN structure

\* C1: a call with max_retries = N >= 1 whose every session ended with a failed
\* navigation has opened exactly N sessions and made exactly N attempts, and it
\* returns the error result: the error of the N-th attempt and attempts_made = N.
C1_RetryBudget ==
    (Returned /\ max_retries >= 1 /\ navFailures = sessionsOpened)
        => /\ sessionsOpened = max_retries
           /\ attempt + 1 = max_retries
           /\ failedAttempts = max_retries
           /\ IsErrorResult(ret.value)
           /\ ret.value.error = [kind |-> "goto", attempt |-> max_retries]
           /\ ret.value.attempts_made = max_retries

C1_Witness ==
    /\ Returned
    /\ max_retries = 3
    /\ navFailures = 3
    /\ sessionsOpened = 3
    /\ ret.value.attempts_made = 3

C3_NoErrorEscapes ==
    (pc = "idle" /\ ret.kind = "raised") => ret.error.kind = "ValueError"

\* C4: for max_retries >= 1 a returned result has the key 'error' exactly when no
\* attempt completed.  Completed: attempts_made is the number of failed attempts
\* before it plus one, at most max_retries.  Exhausted: attempts_made equals
\* max_retries and equals the number of sessions opened.
C4_ErrorIffNoneCompleted ==
    (Returned /\ max_retries >= 1)
        => /\ IsErrorResult(ret.value) <=> (failedAttempts = attempt + 1)
           /\ ~IsErrorResult(ret.value)
                 => /\ ret.value.attempts_made = failedAttempts + 1
                    /\ ret.value.attempts_made <= max_retries
           /\ IsErrorResult(ret.value)
                 => /\ ret.value.attempts_made = max_retries
                    /\ sessionsOpened = max_retries

C4_Witness ==
    /\ Completed
    /\ max_retries = 3
    /\ failedAttempts = 1
    /\ ret.value.attempts_made = 2

\* C5: when every attempt failed, partial_results holds every field the last
\* attempt gathered before it failed, such as its initial structure.
C5_PartialResultsOfLastAttempt ==
    (Exhausted /\ Captured(initial_structure))
        => /\ "initial_structure" \in DOMAIN ret.value.partial_results
           /\ ret.value.partial_results.initial_structure = initial_structure

\* C6: the bypass wait is entered only on a Cloudflare signature; when it returns
\* False the attempt is given up: with attempts left the browser is closed and the
\* next attempt starts, on the last attempt the bypass failure is raised and is
\* the error of the error result.  No more than max_retries sessions are opened.
C6_CloudflareRetry ==
    /\ [](/\ sessionsOpened <= max_retries
          /\ (pc = "cf_wait" => MentionsCloudflare(protection_detected))
          /\ (pc = "cf_retry_close" => attempt + 1 < max_retries)
          /\ ((pc = "handler" /\ exc.kind = "cloudflare_bypass")
                 => attempt + 1 = max_retries)
          /\ ((Exhausted /\ exc.kind = "cloudflare_bypass")
                 => ret.value.error =
                        [kind |-> "cloudflare_bypass", attempt |-> max_retries]))
    /\ [][ /\ (pc = "cf_wait" /\ pc' \notin {"cf_wait", "wait_strategies"})
               => IF attempt + 1 < max_retries
                  THEN pc' = "cf_retry_close"
                  ELSE pc' = "handler" /\ exc' = Error("cloudflare_bypass")
           /\ (pc = "cf_retry_close" /\ pc' = "open")
               => /\ browser' = "closed"
                  /\ openBrowsers' = openBrowsers - 1
                  /\ attempt' = attempt + 1 ]_vars

C6_Witness ==
    /\ Exhausted
    /\ max_retries = 3
    /\ failedAttempts = 3
    /\ navFailures = 0
    /\ ret.value.error = [kind |-> "cloudflare_bypass", attempt |-> 3]

\* C7 (as amended): the value recorded in the initial structure is the second
\* detection when that one found a signature, and the first detection otherwise.
C7_NonEmptySecondDetectionSupersedes ==
    [][ (pc = "final_check" /\ Captured(initial_structure'))
           => initial_structure'.protection_detected =
                  (IF final_protection' # {} THEN final_protection'
                                             ELSE protection_detected) ]_vars

C7_Witness ==
    /\ Captured(initial_structure)
    /\ final_protection = {}
    /\ initial_structure.protection_detected # {}

\* C7 as stated: the recorded value always equals the second detection, so a
\* signature found first and gone at the second detection is recorded as none.
C7_SecondDetectionRecorded ==
    Captured(initial_structure)
        => initial_structure.protection_detected = final_protection

\* C8: after a completed run in which the detector reported a signature, the
\* returned results hold it under final_structure.protection_detected.
C8_ProtectionInFinalStructure ==
    (Completed /\ protection_detected # {})
        => /\ "protection_detected" \in DOMAIN ret.value.final_structure
           /\ ret.value.final_structure.protection_detected = protection_detected

\* C9: what a call returns stems from its own URL only: partial_results, the
\* expansion records, the timeline snapshots and the API calls in it were all
\* produced while that URL was processed.
C9_ResultOfItsOwnUrl ==
    Returned =>
        LET v == ret.value
            own(x) == x.origin[1] = urls[urlIdx]
        IN  IF IsErrorResult(v)
            THEN "url" \in DOMAIN v.partial_results
                     => v.partial_results.url = urls[urlIdx]
            ELSE /\ \A e \in DOMAIN v.interaction_results :
                        own(v.interaction_results[e])
                 /\ Captured(v.monitoring_data)
                        => /\ \A i \in DOMAIN v.monitoring_data.timeline :
                                  own(v.monitoring_data.timeline[i])
                           /\ \A i \in DOMAIN v.monitoring_data.api_calls :
                                  own(v.monitoring_data.api_calls[i])

\* C10: every call that was started is over at some later time.
C10_EveryCallTerminates == (pc # "idle") ~> (pc = "idle")

PhaseOf(p) ==
    CASE p \in {"open", "setup"} -> 1
      [] p = "goto" -> 2
      [] p = "protection_check" -> 3
      [] p = "cf_wait" -> 4
      [] p \in {"wait_strategies", "final_check"} -> 5
      [] p \in {"monitoring", "mon_hook", "mon_wait", "mon_final", "phase3"} -> 6
      [] p = "phase4" -> 7
      [] p = "close_return" -> 8
      [] OTHER -> 0

\* C12: within an attempt the phases are passed in their order, one after the
\* other (only the bypass wait may be skipped) and none is entered again; an
\* attempt starts with the opening, the compiled results are returned from the
\* completion phase only, and they hold the initial and the final structure
\* captured in the completing attempt.
C12_PhaseOrder ==
    /\ [][ /\ (PhaseOf(pc) > 0 /\ PhaseOf(pc') > 0)
               => \/ PhaseOf(pc') = PhaseOf(pc)
                  \/ PhaseOf(pc') = PhaseOf(pc) + 1
                  \/ PhaseOf(pc) = 3 /\ PhaseOf(pc') = 5
           /\ (PhaseOf(pc) = 0 /\ PhaseOf(pc') > 0) => PhaseOf(pc') = 1
           /\ (pc # "idle" /\ pc' = "idle" /\ ret'.kind = "returned"
                  /\ ~IsErrorResult(ret'.value))
               => pc = "close_return" ]_vars
    /\ [](Completed
            => /\ "initial_structure" \in DOMAIN ret.value
               /\ Captured(ret.value.initial_structure)
               /\ ret.value.initial_structure.origin
                      = <<urls[urlIdx], ret.value.attempts_made>>
               /\ ret.value.final_structure.origin
                      = <<urls[urlIdx], ret.value.attempts_made>>)

C12_Witness ==
    /\ Completed
    /\ MentionsCloudflare(protection_detected)
    /\ Captured(ret.value.monitoring_data)
    /\ ret.value.attempts_made = 2

\* C13: the hook is entered only right after the initial snapshot and only when
\* one was supplied, it is left for the stability wait whether it raised or not
\* and is not entered again; without a hook the initial snapshot is followed by
\* the stability wait; the wait is followed by the final snapshot, the stop and
\* the returned monitoring data.
C13_HookOnceErrorsSwallowed ==
    [][ /\ (pc # "mon_hook" /\ pc' = "mon_hook")
            => /\ pc = "monitoring"
               /\ interact_with_elements
               /\ content_timeline' = Append(content_timeline, Snapshot("initial"))
        /\ (pc = "mon_hook" /\ pc' # "mon_hook") => pc' = "mon_wait"
        /\ (pc = "monitoring" /\ pc' = "mon_wait")
            => /\ ~interact_with_elements
               /\ content_timeline' = Append(content_timeline, Snapshot("initial"))
        /\ (pc # "mon_wait" /\ pc' = "mon_wait") => pc \in {"monitoring", "mon_hook"}
        /\ (pc # "mon_final" /\ pc' = "mon_final") => pc = "mon_wait"
        /\ (pc = "mon_final" /\ pc' = "phase3")
            => /\ content_timeline' = Append(content_timeline, Snapshot("final"))
               /\ Captured(monitoring_data')
               /\ monitoring_data'.timeline = content_timeline' ]_vars

C13_Witness ==
    /\ pc = "phase3"
    /\ interact_with_elements
    /\ Captured(monitoring_data)
    /\ expanded_states = EmptyDict
    /\ Len(monitoring_data.timeline) = 2

\* C14: the API-call log in the monitoring data that stop_monitoring returned
\* keeps the length the summary reports as api_calls_detected.
C14_LogsSealedAtStop ==
    (Captured(monitoring_data) /\ "api_calls_detected" \in DOMAIN monitoring_data.summary)
        => monitoring_data.summary.api_calls_detected = Len(monitoring_data.api_calls)

\* C15 (as amended): the activity level depends on the mutation log alone: 'none'
\* for the empty log; for a log whose timespan is positive, with rate = count per
\* second of timespan, 'high' if rate > 5, 'medium' if 1 < rate <= 5, 'low' if
\* rate <= 1; for a non-empty log of timespan zero, 'low'.
C15_ActivityLevel ==
    frame.fn = "_generate_monitoring_summary" =>
        LET log == frame.mutations
            level == frame.value.activity_level
            count == Len(log)
            span == log[Len(log)].timestamp - log[1].timestamp
        IN  IF log = << >> THEN level = "none"
            ELSE IF span > 0
            THEN /\ (level = "high") <=> (count * 1000 > 5 * span)
                 /\ (level = "medium") <=> (count * 1000 > span /\ count * 1000 <= 5 * span)
                 /\ (level = "low") <=> (count * 1000 <= span)
            ELSE level = "low"

\* a log of two events two seconds apart: rate exactly 1.0
C15_Witness ==
    /\ frame.fn = "_generate_monitoring_summary"
    /\ Len(frame.mutations) = 2
    /\ frame.mutations[2].timestamp - frame.mutations[1].timestamp = 2000
    /\ frame.value.activity_level = "low"

\* C15 as stated: for every non-empty log the level follows from the rate
\* count / timespan, whatever the timespan (a zero timespan makes the rate exceed
\* every threshold).
C15_ActivityLevelByRate ==
    (frame.fn = "_generate_monitoring_summary" /\ frame.mutations # << >>)
        => LET log == frame.mutations
               level == frame.value.activity_level
               count == Len(log)
               span == log[Len(log)].timestamp - log[1].timestamp
           IN  /\ (level = "high") <=> (count * 1000 > 5 * span)
               /\ (level = "medium") <=> (count * 1000 > span /\ count * 1000 <= 5 * span)
               /\ (level = "low") <=> (count * 1000 <= span)

\* C16: the settlement waiter returns True exactly when the height was seen
\* unchanged for the whole hold duration before the maximum wait was over, and
\* False otherwise.
C16_SettlementReportsOutcome ==
    (frame.fn = "wait_for_content_settlement" /\ frame.returned)
        => frame.value = (IF frame.held THEN "True" ELSE "False")

\* the challenge phrases a title is searched for
ChallengePhrases == {"just a moment", "checking your browser", "cloudflare"}

\* C17: wait_for_cloudflare returns True at the first poll that reads a title
\* with no challenge phrase, which happens before max_wait seconds are over; it
\* returns False exactly when max_wait seconds passed without such a poll; a
\* poll whose title read raised costs a second like a blocked one and polling
\* goes on.
C17_CloudflareWait ==
    frame.fn = "wait_for_cloudflare" =>
        /\ frame.elapsed <= frame.max_wait
        /\ frame.raisedPolls <= frame.elapsed
        /\ \A t \in frame.earlierTitles : t \cap ChallengePhrases # {}
        /\ frame.returned = (frame.value # "None")
        /\ (frame.value = "True")
              <=> (frame.lastTitle # {"unread"} /\ frame.lastTitle \cap ChallengePhrases = {})
        /\ (frame.value = "True") => frame.elapsed < frame.max_wait
        /\ (frame.value = "False")
              <=> /\ frame.returned
                  /\ frame.elapsed >= frame.max_wait
                  /\ frame.lastTitle = {"unread"} \/ frame.lastTitle \cap ChallengePhrases # {}

\* the title stops matching after 4 seconds, one of the reads having raised,
\* with max_wait = 30
C17_Witness ==
    /\ frame.fn = "wait_for_cloudflare"
    /\ frame.max_wait = 30
    /\ frame.elapsed = 4
    /\ frame.raisedPolls = 1
    /\ frame.earlierTitles # {}
    /\ frame.returned
    /\ frame.value = "True"

\* C18: a call of the nested handler with depth > max_depth makes no expansion
\* attempt and returns only the 'Max depth reached' sentinel; every other call
\* returns records that all carry the call's depth, which is at most max_depth.
C18_DepthLimit ==
    frame.fn = "_handle_nested_expandables" =>
        IF frame.depth >= frame.max_depth + 1
        THEN /\ frame.attempts = 0
             /\ DOMAIN frame.value = {"skipped"}
             /\ frame.value["skipped"] = "Max depth reached"
        ELSE /\ "skipped" \notin DOMAIN frame.value
             /\ \A k \in DOMAIN frame.value :
                  /\ frame.value[k].depth = frame.depth
                  /\ frame.value[k].depth <= frame.max_depth

\* a call one level past max_depth, handed elements, that attempted nothing
C18_Witness ==
    /\ frame.fn = "_handle_nested_expandables"
    /\ frame.depth = frame.max_depth + 1
    /\ Len(frame.nested_elements) = 2
    /\ frame.attempts = 0

\* C19: the signature of a descriptor with a non-empty id is the same on a
\* repeated computation, and it equals the signature of another descriptor with
\* non-empty id, whatever that one's tag, class list, text and the hash seed,
\* exactly if the two ids are equal.
C19_SignatureOfIdAlone ==
    (frame.fn = "_generate_element_id" /\ frame.element_info.id # "") =>
        /\ frame.again = frame.value
        /\ \A other \in AllDescriptors, digest \in Digests :
             other.id # "" =>
                ((GenerateElementId(other, digest) = frame.value)
                    <=> (other.id = frame.element_info.id))

\* the signature of a descriptor with id, classes and text
C19_Witness ==
    /\ frame.fn = "_generate_element_id"
    /\ frame.element_info = Descriptor("a", "BUTTON", <<"x", "y">>, <<"Less", "">>)
    /\ frame.value = "id_a"

\* C20: an exploration pass on a fresh engine returns one record per discovered
\* element: as many records as _find_expandable_elements returned elements.
C20_OneRecordPerElement ==
    frame.fn = "explore_expandable_content" =>
        Cardinality(DOMAIN frame.value) = Len(frame.expandables)

\* C21: capture_page_structure never raises: when sub-captures fail the snapshot
\* is still returned, with the fields of the other sub-captures populated.
C21_CaptureNeverRaises ==
    frame.fn = "capture_page_structure" =>
        /\ ~frame.raised
        /\ \A i \in 1..Len(SubCaptures) :
             SubCaptures[i] \notin frame.failing => SubCaptures[i] \in frame.populated

\* C22: the stability wait is over within max_wait of being entered (one sleep
\* of 0.5 s allowed for the last poll), whatever the mutation stream.
C22_StabilityWaitDeadline ==
    (frame.fn = "_wait_for_content_stability" /\ ~frame.returned) =>
        frame.sinceEntry < StabilityMaxWait + StableSleep

\* C23: what a completed attempt reports was produced during that attempt: the
\* expansion records, the API calls and the timeline snapshots of the result
\* all stem from the attempt whose number is attempts_made.
C23_AttemptStartsEmpty ==
    (Returned /\ ~IsErrorResult(ret.value)) =>
        LET v == ret.value
            fresh(x) == x.origin = <<v.url, v.attempts_made>>
        IN  /\ \A e \in DOMAIN v.interaction_results : fresh(v.interaction_results[e])
            /\ Captured(v.monitoring_data)
                  => /\ \A i \in DOMAIN v.monitoring_data.timeline :
                            fresh(v.monitoring_data.timeline[i])
                     /\ \A i \in DOMAIN v.monitoring_data.api_calls :
                            fresh(v.monitoring_data.api_calls[i])

\* the methods, in the order of Strategies, that apply to the element of the
\* running _expand_element call and do not raise on it
WorkingStrategies ==
    SelectSeq(Strategies,
              LAMBDA m : (m = "click" \/ m \in frame.applies) /\ m \notin frame.raises)

\* C24: on an element that is found, _expand_element records success with the
\* first method, in the order click, aria-expanded, details-open, data-toggle,
\* that applies and does not raise, and failure only when there is none.
C24_FirstWorkingStrategy ==
    (frame.fn = "_expand_element" /\ frame.found /\ ~frame.evaluateRaises) =>
        IF WorkingStrategies = << >>
        THEN ~frame.value.success
        ELSE /\ frame.value.success
             /\ frame.value.method = Head(WorkingStrategies)

\* C25: content_changed of an expansion result is true exactly when a method
\* succeeded and the capture taken after it differs from the one taken before;
\* it is never true when success is false.
C25_ContentChangedIffSuccessAndDiff ==
    frame.fn = "_expand_element" =>
        /\ frame.value.content_changed
              <=> (frame.value.success /\ frame.content_before # frame.content_after)
        /\ ~frame.value.success => ~frame.value.content_changed

\* an activation that did not raise on an element whose content stayed as it was
C25_Witness ==
    /\ frame.fn = "_expand_element"
    /\ frame.value.success
    /\ frame.value.method = "click"
    /\ frame.content_before = "collapsed"
    /\ frame.content_after = "collapsed"
    /\ ~frame.value.content_changed

\* C26: an element's record has nested records, the outcome of the nested scan
\* and of the activation of what it found, only if the element's own expansion
\* succeeded and changed content.
C26_NestedScanOnlyAfterChange ==
    frame.fn = "explore_expandable_content" =>
        \A k \in DOMAIN frame.value :
           "nested_expandables" \in DOMAIN frame.value[k]
              => /\ frame.value[k].interaction_result.success
                 /\ frame.value[k].interaction_result.content_changed

\* C27: when the first element handled at a depth below max_depth is expanded
\* with success and the page then shows a disclosure element inside it, that
\* element is attempted too and recorded with the next depth.
C27_RevealedInsideNestedIsAttempted ==
    (/\ frame.fn = "_handle_nested_expandables"
     /\ frame.depth >= 1
     /\ frame.depth < frame.max_depth
     /\ frame.nested_elements # << >>
     /\ Len(frame.nested_elements) < NestedLimit
     /\ frame.outcomes[1][1]
     /\ frame.inside # << >>)
    => /\ frame.attempts > Len(frame.nested_elements)
       /\ \E k \in DOMAIN frame.value :
            \/ frame.value[k].depth = frame.depth + 1
            \/ /\ "nested_expandables" \in DOMAIN frame.value[k]
               /\ \E n \in DOMAIN frame.value[k].nested_expandables :
                     frame.value[k].nested_expandables[n].depth = frame.depth + 1

\* C28: within one exploration pass no node of the page is activated twice.
C28_ActivatedAtMostOnce ==
    frame.fn = "explore_page" =>
        \A i, j \in 1..Len(frame.log) :
           frame.log[i].node = frame.log[j].node => i = j

\* the position in the activation log of the first activation of a node, 0 if none
FirstActivation(name) ==
    IF \E i \in 1..Len(frame.log) : frame.log[i].node = name
    THEN CHOOSE i \in 1..Len(frame.log) :
            /\ frame.log[i].node = name
            /\ \A j \in 1..(i - 1) : frame.log[j].node # name
    ELSE 0

\* C29: the top-level attempts are made in discovery order, and a node lying
\* inside another disclosure node of the page is activated only after that
\* node was activated with success.
C29_ChildAfterSuccessfulParent ==
    frame.fn = "explore_page" =>
        /\ SelectSeq(frame.log, LAMBDA a : a.level = 0)
              = [i \in 1..Len(frame.discovered) |->
                    [node |-> frame.discovered[i], level |-> 0, under |-> "none"]]
        /\ \A i \in 1..Len(frame.page) :
             LET child == frame.page[i] IN
             (child.parent # "none" /\ FirstActivation(child.name) > 0)
                => /\ child.parent \in frame.succeeds
                   /\ FirstActivation(child.parent) > 0
                   /\ FirstActivation(child.parent) < FirstActivation(child.name)

\* the node of the page of the running pass with a name
NodeNamed(name) ==
    frame.page[CHOOSE i \in 1..Len(frame.page) : frame.page[i].name = name]

\* C30: every discovered node is attempted at top level, failed or not, and has
\* a record of its own that holds the outcome of its expansion; the same holds
\* for the records of the nested attempts made under a node.
C30_FailureStaysInItsRecord ==
    frame.fn = "explore_page" =>
        /\ \A i \in 1..Len(frame.discovered) :
             LET name == frame.discovered[i] IN
             /\ \E a \in 1..Len(frame.log) :
                   frame.log[a].node = name /\ frame.log[a].level = 0
             /\ \E k \in DOMAIN frame.value :
                   /\ frame.value[k].node = name
                   /\ frame.value[k].interaction_result.success
                         = (name \in frame.succeeds)
        /\ \A a \in 1..Len(frame.log) :
             frame.log[a].level = 1 =>
                \E k \in DOMAIN frame.value :
                   /\ frame.value[k].node = frame.log[a].under
                   /\ "nested_expandables" \in DOMAIN frame.value[k]
                   /\ \E n \in DOMAIN frame.value[k].nested_expandables :
                        LET r == frame.value[k].nested_expandables[n] IN
                        /\ r.node = frame.log[a].node
                        /\ r.interaction_result.success
                              = (frame.log[a].node \in frame.succeeds)

\* a pass in which the first discovered node and a nested node failed and the
\* sibling discovered last succeeded
C30_Witness ==
    /\ frame.fn = "explore_page"
    /\ frame.discovered = <<"c", "p", "s">>
    /\ frame.succeeds = {"p", "s"}
    /\ \E a \in 1..Len(frame.log) : frame.log[a].level = 1 /\ frame.log[a].node = "c"
    /\ frame.log[Len(frame.log)] = [node |-> "s", level |-> 0, under |-> "none"]

C32_FallbackAfterStabilityTimeout ==
    frame.fn = "wait_strategies" =>
        /\ (~frame.networkidle /\ ~frame.settled)
              => (frame.fallback_wait /\ frame.wait_strategy_used = "fallback")
        /\ frame.wait_strategy_used = "networkidle" => frame.networkidle

\* C33: when an attempt is at its first protection check, in the bypass wait or
\* at the waiting strategies, its initial structure has already been captured.
C33_InitialSnapshotBeforeWaits ==
    pc \in {"protection_check", "cf_wait", "wait_strategies"} =>
        /\ Captured(initial_structure)
        /\ initial_structure.origin = Origin

\* C34: the analysis flags a significant change exactly when the element count
\* grew by more than 10, the text length by more than 1000, a count of
\* interactive controls (buttons, links, inputs) grew, or the page height moved
\* by more than 500; an unchanged page gives no deltas and no flags.
C34_SignificantChanges ==
    frame.fn = "_analyze_content_changes" =>
        LET d == frame.delta IN
        /\ (frame.significant_changes # << >>)
              <=> \/ d.totalElements > 10
                  \/ d.totalTextLength > 1000
                  \/ d.buttons > 0
                  \/ d.links > 0
                  \/ d.inputs > 0
                  \/ Abs(d.pageHeight) > 500
        /\ (\A key \in MetricKeys : d[key] = 0)
              => /\ DOMAIN frame.content_metric_changes = {}
                 /\ frame.significant_changes = << >>

\* the selectors of a frame that were probed and found: those the page holds
\* that come before the probe that raised
ProbedAndFound ==
    { ProtectionSelectors[i] : i \in { j \in 1..Len(ProtectionSelectors) :
          /\ ProtectionSelectors[j] \in frame.present
          /\ frame.probeError = 0 \/ j < frame.probeError } }

\* C35: _detect_bot_protection always returns; it returns None exactly when no
\* title phrase matched, no selector was found and the body text read is not
\* shorter than 100 characters, and otherwise one string that joins with "; "
\* exactly one indicator per matched phrase, per found selector and for minimal
\* content; a raising probe or body read only leaves its indicators out.
C35_SignatureOfIndicators ==
    frame.fn = "_detect_bot_protection" =>
        LET minimal == ~frame.body.raises /\ frame.body.length < 100
            indicators == { frame.protection_indicators[i] :
                               i \in DOMAIN frame.protection_indicators }
        IN  /\ (frame.value = "None")
                  <=> (frame.title = {} /\ ProbedAndFound = {} /\ ~minimal)
            /\ indicators =
                  { "Title contains '" \o phrase \o "'" : phrase \in frame.title }
                  \cup { "Found protection element: " \o selector :
                            selector \in ProbedAndFound }
                  \cup (IF minimal THEN {"Very minimal page content"} ELSE {})
            /\ Len(frame.protection_indicators) = Cardinality(indicators)
            /\ frame.value # "None"
                  => frame.value = JoinWith(frame.protection_indicators, "; ")

\* a detection where two phrases matched, a probe raised after one selector was
\* found and the body read raised
C35_Witness ==
    /\ frame.fn = "_detect_bot_protection"
    /\ Cardinality(frame.title) = 2
    /\ frame.probeError = 3
    /\ frame.present = {".cf-browser-verification", ".grecaptcha-badge"}
    /\ frame.body.raises
    /\ Len(frame.protection_indicators) = 3

\* the records of the summarised engine whose expansion succeeded with a method
SucceededWith(method) ==
    { i \in DOMAIN frame.expanded_states :
        /\ frame.expanded_states[i].interaction_result.success
        /\ frame.expanded_states[i].interaction_result.method = method }

\* C36: the summary tallies every successful expansion under the name of the
\* method that worked, which the record's method_used names; the tallies hold
\* nothing else, so that they add up to successful_expansions, and successful
\* and failed expansions add up to total_elements.
C36_TalliedUnderStrategy ==
    frame.fn = "get_expansion_summary" =>
        LET summary == frame.value
            methods == { Strategies[i] : i \in DOMAIN Strategies }
        IN  /\ \A i \in DOMAIN frame.expanded_states :
                 LET result == frame.expanded_states[i].interaction_result
                 IN  result.success => result.method_used = result.method
            /\ DOMAIN summary.expansion_methods
                  = { method \in methods : SucceededWith(method) # {} }
            /\ \A method \in DOMAIN summary.expansion_methods :
                 summary.expansion_methods[method]
                    = Cardinality(SucceededWith(method))
            /\ summary.successful_expansions
                  = Cardinality({ i \in DOMAIN frame.expanded_states :
                       frame.expanded_states[i].interaction_result.success })
            /\ summary.successful_expansions + summary.failed_expansions
                  = summary.total_elements
            /\ summary.total_elements = Len(frame.expanded_states)

\* C37: for a non-empty log whose first and last event have the same timestamp
\* the summary reports a rate of 0 and the level 'low', however many events the
\* log holds; the summary of a non-empty log never has the level 'none'.
C37_ZeroTimespanIsLow ==
    (frame.fn = "_generate_monitoring_summary" /\ frame.mutations # << >>) =>
        LET log == frame.mutations
            span == log[Len(log)].timestamp - log[1].timestamp
        IN  /\ frame.value.activity_level # "none"
            /\ frame.value.total_mutations = Len(log)
            /\ span = 0 => /\ frame.value.mutations_per_second = 0
                           /\ frame.value.activity_level = "low"

\* a log of MaxMutations events that carry the same timestamp
C37_Witness ==
    /\ frame.fn = "_generate_monitoring_summary"
    /\ Len(frame.mutations) = MaxMutations
    /\ frame.mutations[MaxMutations].timestamp = frame.mutations[1].timestamp
    /\ frame.value.mutations_per_second = 0
    /\ frame.value.activity_level = "low"

\* C38: after batch_analyze(urls), successful + failed = total_urls = len(urls),
\* whatever each URL met (a result, an error result, an exception of the scrape,
\* an exception while the specification file is saved), and every URL of the
\* list was analysed, in list order.
C38_EveryUrlCountedOnce ==
    frame.fn = "batch_analyze" =>
        /\ frame.value.total_urls = Len(frame.urls)
        /\ frame.value.successful + frame.value.failed = frame.value.total_urls
        /\ frame.value.analysed = frame.urls

\* C39: an attempt calls explore_expandable_content at most once, and never
\* when interact_with_elements is false; an attempt that has come to Phase 4
\* has called it exactly once when interact_with_elements is true, as the
\* monitoring hook when monitor_content is true and directly otherwise.
C39_ExploredAtMostOnce ==
    /\ Len(explorations) <= 1
    /\ ~interact_with_elements => explorations = << >>
    /\ pc \in {"phase4", "close_return"} =>
          explorations = (IF ~interact_with_elements THEN << >>
                          ELSE IF monitor_content THEN <<"hook">>
                          ELSE <<"direct">>)

\* a second attempt, after a first one that failed, in which the exploration
\* ran as the monitoring hook and which has come to Phase 4
C39_Witness ==
    /\ pc = "phase4"
    /\ attempt = 1
    /\ monitor_content
    /\ interact_with_elements
    /\ explorations = <<"hook">>

====
